---------------------------- MODULE Spec2Model ----------------------------
(***************************************************************************)
(* A model of the Level Devil platformer: the per-frame simulation of     *)
(* components/GameCanvas.tsx (physics, level mechanics, axis-separated    *)
(* collision resolution, hazard/goal checks, particles), the level data   *)
(* of constants.ts and the part of App.tsx that holds the game status.    *)
(*                                                                         *)
(* Numbers.  The program computes in IEEE doubles.  The model computes in  *)
(* integers whose unit is 1/1000 pixel (a position of 80 px is 80000, a    *)
(* velocity of 0.6 px/frame is 600).  Every constant of the program is a   *)
(* whole number of such units, and every operation but one is exact on     *)
(* them: the friction product vel.x * 0.8 is truncated toward zero to a    *)
(* whole unit.  Frame counters and timers are plain counts.                *)
(***************************************************************************)
EXTENDS Integers, Sequences, FiniteSets, TLC

\* ------------------------------------------------------------------------
\* constants.ts: physics
\* ------------------------------------------------------------------------
GRAVITY == 600
JUMP_FORCE == -11000
MOVE_SPEED == 5000
MAX_FALL_SPEED == 15000
PLAYER_SIZE == 30000
TILE_SIZE == 40000
EDITOR_COLS == 30
EDITOR_ROWS == 15

\* n pixels in model units
PX(n) == n * 1000

\* FRICTION = 0.8: v * FRICTION, truncated toward zero to a whole unit
FRICTION(v) == IF v >= 0 THEN (v * 8) \div 10 ELSE -(((-v) * 8) \div 10)

Abs(n) == IF n < 0 THEN -n ELSE n
Max(a, b) == IF a >= b THEN a ELSE b
Min(a, b) == IF a <= b THEN a ELSE b

\* ------------------------------------------------------------------------
\* types.ts: the property bag of an entity.  The program's bag is an open
\* map; the model gives it one slot per key the program ever reads or
\* writes.  A boolean key that is absent reads as FALSE (the program only
\* tests truthiness), vy absent reads as 0 (`if (!vy) vy = 0`), the string
\* key absent reads as "".  The counters timer and shakeTimer, and the
\* render-only displayX and opacity, are <<>> when they hold no number
\* (absent, or NaN after `undefined += 1`) and <<n>> when they hold n.
\* ------------------------------------------------------------------------
NoProps ==
    [trap |-> FALSE, triggered |-> FALSE, timer |-> <<>>,
     fallingStrategy |-> "", falling |-> FALSE, shaking |-> FALSE,
     shakeTimer |-> <<>>, displayX |-> <<>>, opacity |-> <<>>, vy |-> 0,
     ghost |-> FALSE, fake |-> FALSE, active |-> FALSE]

\* `t += 1` on a counter slot: NaN/undefined stays not-a-number
Inc(t) == IF t = <<>> THEN <<>> ELSE <<t[1] + 1>>
\* `t > n` on a counter slot: false when t is not a number
Exceeds(t, n) == t # <<>> /\ t[1] > n

\* constants.ts createRect: a grid rectangle as an entity
createRect(x, y, w, h, type, id) ==
    [x |-> x * TILE_SIZE, y |-> y * TILE_SIZE,
     w |-> w * TILE_SIZE, h |-> h * TILE_SIZE,
     type |-> type, id |-> id, visible |-> TRUE, collidable |-> TRUE,
     properties |-> NoProps]

\* { ...e, visible, collidable }
WithFlags(e, vis, col) == [e EXCEPT !.visible = vis, !.collidable = col]

\* ------------------------------------------------------------------------
\* constants.ts: the ten campaign levels
\* ------------------------------------------------------------------------
level1 ==
    [id |-> 1, startPos |-> [x |-> 2 * TILE_SIZE, y |-> 8 * TILE_SIZE],
     width |-> 20 * TILE_SIZE, height |-> 12 * TILE_SIZE,
     entities |-> <<
        createRect(0, 10, 8, 2, "WALL", "floor-left"),
        createRect(12, 10, 8, 2, "WALL", "floor-right"),
        createRect(8, 11, 4, 1, "SPIKE", "pit-spikes"),
        createRect(0, 0, 1, 12, "WALL", "left-wall"),
        createRect(19, 0, 1, 12, "WALL", "right-wall"),
        createRect(0, 0, 20, 1, "WALL", "ceiling"),
        createRect(17, 8, 1, 2, "GOAL", "goal"),
        WithFlags(createRect(8, 6, 4, 1, "WALL", "troll-block"), FALSE, TRUE) >>]

level2 ==
    [id |-> 2, startPos |-> [x |-> 2 * TILE_SIZE, y |-> 8 * TILE_SIZE],
     width |-> 20 * TILE_SIZE, height |-> 12 * TILE_SIZE,
     entities |-> <<
        createRect(0, 0, 1, 12, "WALL", "left-wall"),
        createRect(19, 0, 1, 12, "WALL", "right-wall"),
        createRect(0, 0, 20, 1, "WALL", "ceiling"),
        createRect(0, 10, 20, 2, "WALL", "floor"),
        createRect(14, 9, 1, 1, "SPIKE", "hidden-spike"),
        createRect(14, 8, 1, 2, "GOAL", "goal") >>]

level3 ==
    [id |-> 3, startPos |-> [x |-> 2 * TILE_SIZE, y |-> 8 * TILE_SIZE],
     width |-> 20 * TILE_SIZE, height |-> 12 * TILE_SIZE,
     entities |-> <<
        createRect(0, 10, 20, 2, "WALL", "floor"),
        createRect(0, 0, 1, 12, "WALL", "left-wall"),
        createRect(19, 0, 1, 12, "WALL", "right-wall"),
        createRect(0, 0, 20, 1, "WALL", "ceiling"),
        createRect(17, 8, 1, 2, "GOAL", "goal"),
        createRect(8, 9, 1, 1, "SPIKE", "ground-spike-1"),
        createRect(13, 9, 1, 1, "SPIKE", "ground-spike-2"),
        createRect(8, 4, 1, 1, "SPIKE", "fall-spike-1"),
        createRect(13, 4, 1, 1, "SPIKE", "fall-spike-2") >>]

level4 ==
    [id |-> 4, startPos |-> [x |-> 2 * TILE_SIZE, y |-> 5 * TILE_SIZE],
     width |-> 20 * TILE_SIZE, height |-> 15 * TILE_SIZE,
     entities |-> <<
        createRect(0, 0, 1, 15, "WALL", "left-wall"),
        createRect(19, 0, 1, 15, "WALL", "right-wall"),
        createRect(0, 0, 20, 1, "WALL", "ceiling"),
        createRect(0, 7, 4, 1, "WALL", "start-plat"),
        createRect(0, 14, 20, 1, "SPIKE", "floor-spikes"),
        [createRect(5, 4, 1, 1, "WALL", "inv-blocker")
            EXCEPT !.properties.ghost = TRUE],
        createRect(7, 7, 5, 1, "WALL", "trap-plat"),
        createRect(16, 7, 4, 1, "WALL", "goal-plat"),
        createRect(17, 5, 1, 2, "GOAL", "goal") >>]

level5 ==
    [id |-> 5, startPos |-> [x |-> 2 * TILE_SIZE, y |-> 8 * TILE_SIZE],
     width |-> 20 * TILE_SIZE, height |-> 12 * TILE_SIZE,
     entities |-> <<
        createRect(0, 0, 1, 12, "WALL", "left-wall"),
        createRect(19, 0, 1, 12, "WALL", "right-wall"),
        createRect(0, 0, 20, 1, "WALL", "ceiling"),
        createRect(17, 8, 1, 2, "GOAL", "goal"),
        createRect(0, 10, 6, 2, "WALL", "floor-1"),
        WithFlags(createRect(6, 10, 3, 2, "WALL", "fake-floor"), TRUE, FALSE),
        createRect(6, 11, 3, 1, "SPIKE", "pit-spikes"),
        createRect(9, 10, 11, 2, "WALL", "floor-2"),
        [createRect(9, 7, 1, 2, "WALL", "inv-wall")
            EXCEPT !.properties.ghost = TRUE],
        createRect(11, 10, 1, 1, "SPIKE", "inv-spike-1") >>]

level6 ==
    [id |-> 6, startPos |-> [x |-> 2 * TILE_SIZE, y |-> 8 * TILE_SIZE],
     width |-> 20 * TILE_SIZE, height |-> 12 * TILE_SIZE,
     entities |-> <<
        createRect(0, 0, 1, 12, "WALL", "left-wall"),
        createRect(19, 0, 1, 12, "WALL", "right-wall"),
        createRect(0, 0, 20, 1, "WALL", "ceiling"),
        createRect(0, 10, 4, 2, "WALL", "start"),
        createRect(16, 10, 4, 2, "WALL", "end"),
        createRect(17, 8, 1, 2, "GOAL", "goal"),
        createRect(4, 11, 12, 1, "SPIKE", "spikes"),
        createRect(5, 10, 2, 1, "WALL", "b1"),
        WithFlags(createRect(8, 10, 2, 1, "WALL", "b2-fake"), TRUE, FALSE),
        createRect(11, 10, 2, 1, "WALL", "b3"),
        WithFlags(createRect(14, 10, 2, 1, "WALL", "b4-fake"), TRUE, FALSE) >>]

level7 ==
    [id |-> 7, startPos |-> [x |-> 2 * TILE_SIZE, y |-> 10 * TILE_SIZE],
     width |-> 20 * TILE_SIZE, height |-> 12 * TILE_SIZE,
     entities |-> <<
        createRect(0, 0, 1, 12, "WALL", "left-wall"),
        createRect(19, 0, 1, 12, "WALL", "right-wall"),
        createRect(0, 0, 20, 1, "WALL", "ceiling"),
        createRect(0, 12, 20, 1, "WALL", "floor"),
        createRect(17, 10, 1, 2, "GOAL", "goal"),
        \* properties: { falling: false, triggered: false }, the slots' defaults
        createRect(10, 1, 2, 4, "WALL", "falling-pillar"),
        createRect(6, 11, 1, 1, "SPIKE", "ground-spike") >>]

level8 ==
    [id |-> 8, startPos |-> [x |-> 2 * TILE_SIZE, y |-> 10 * TILE_SIZE],
     width |-> 25 * TILE_SIZE, height |-> 12 * TILE_SIZE,
     entities |-> <<
        createRect(0, 0, 1, 12, "WALL", "left-wall"),
        createRect(24, 0, 1, 12, "WALL", "right-wall"),
        createRect(0, 12, 25, 1, "WALL", "floor"),
        createRect(22, 10, 1, 2, "GOAL", "goal"),
        createRect(0, 0, 25, 4, "WALL", "crushing-ceiling"),
        createRect(8, 11, 1, 1, "SPIKE", "s1"),
        createRect(14, 11, 1, 1, "SPIKE", "s2"),
        createRect(19, 11, 1, 1, "SPIKE", "s3") >>]

level9 ==
    [id |-> 9, startPos |-> [x |-> 2 * TILE_SIZE, y |-> 10 * TILE_SIZE],
     width |-> 25 * TILE_SIZE, height |-> 12 * TILE_SIZE,
     entities |-> <<
        createRect(0, 0, 1, 12, "WALL", "left-wall"),
        createRect(24, 0, 1, 12, "WALL", "right-wall"),
        createRect(0, 0, 25, 1, "WALL", "ceiling"),
        createRect(0, 12, 25, 1, "WALL", "floor"),
        createRect(22, 10, 1, 2, "GOAL", "goal"),
        [createRect(2, 12, 1, 1, "SPIKE", "shark-spike")
            EXCEPT !.properties.active = TRUE],
        createRect(10, 11, 1, 1, "WALL", "bump1"),
        createRect(18, 10, 1, 2, "WALL", "bump2") >>]

level10 ==
    [id |-> 10, startPos |-> [x |-> 2 * TILE_SIZE, y |-> 10 * TILE_SIZE],
     width |-> 22 * TILE_SIZE, height |-> 14 * TILE_SIZE,
     entities |-> <<
        createRect(0, 0, 1, 14, "WALL", "left-wall"),
        createRect(21, 0, 1, 14, "WALL", "right-wall"),
        createRect(0, 0, 22, 1, "WALL", "ceiling"),
        createRect(0, 12, 8, 2, "WALL", "floor-1"),
        createRect(8, 13, 14, 1, "SPIKE", "pit"),
        createRect(16, 10, 4, 1, "WALL", "plat"),
        createRect(18, 8, 1, 2, "GOAL", "fake-goal"),
        WithFlags(createRect(2, 3, 1, 2, "GOAL", "real-goal"), FALSE, FALSE),
        WithFlags(createRect(14, 9, 2, 1, "WALL", "s1"), FALSE, TRUE),
        WithFlags(createRect(12, 7, 2, 1, "WALL", "s2"), FALSE, TRUE),
        WithFlags(createRect(10, 5, 2, 1, "WALL", "s3"), FALSE, TRUE),
        WithFlags(createRect(6, 4, 2, 1, "WALL", "s4"), FALSE, TRUE) >>]

LEVELS ==
    << level1, level2, level3, level4, level5,
       level6, level7, level8, level9, level10 >>


\* ------------------------------------------------------------------------
\* LevelEditor.tsx handleSave: a level as the editor compiles it from a
\* painted grid (one 1x1 entity per painted cell, in paint order; the id
\* string's Date.now() suffix is left out).  The grid painted here:
\*   PLAYER_START (2,8)   TRAP_WALL (2,9)   FAKE_WALL (3,8) and (3,9)
\*   WALL (2,12) (3,12) (4,12) (5,12)       GOAL (5,11)
\* ------------------------------------------------------------------------
editorTile(c, r, type, id) == createRect(c, r, 1, 1, type, id)

workshopLevel ==
    [id |-> 11, startPos |-> [x |-> 2 * TILE_SIZE, y |-> 8 * TILE_SIZE],
     width |-> EDITOR_COLS * TILE_SIZE, height |-> EDITOR_ROWS * TILE_SIZE,
     entities |-> <<
        [editorTile(2, 9, "WALL", "custom-2-9")
            EXCEPT !.properties.trap = TRUE],
        [editorTile(3, 8, "WALL", "custom-3-8") EXCEPT !.collidable = FALSE],
        [editorTile(3, 9, "WALL", "custom-3-9") EXCEPT !.collidable = FALSE],
        editorTile(2, 12, "WALL", "custom-2-12"),
        editorTile(3, 12, "WALL", "custom-3-12"),
        editorTile(4, 12, "WALL", "custom-4-12"),
        editorTile(5, 12, "WALL", "custom-5-12"),
        editorTile(5, 11, "GOAL", "custom-5-11") >>]

\* A second grid, painted in this order:
\*   SPIKE (3,11)   GOAL (4,11)   SPIKE (5,11)   FAKE_GOAL (6,9)
\*   SPIKE (2,9)    PLAYER_START (4,7)
\* It has no wall: the player falls from the start, past the decoy on the
\* right or the upper spike on the left, onto the goal between the two
\* lower spikes or beside them.
gauntletLevel ==
    [id |-> 11, startPos |-> [x |-> 4 * TILE_SIZE, y |-> 7 * TILE_SIZE],
     width |-> EDITOR_COLS * TILE_SIZE, height |-> EDITOR_ROWS * TILE_SIZE,
     entities |-> <<
        editorTile(3, 11, "SPIKE", "custom-3-11"),
        editorTile(4, 11, "GOAL", "custom-4-11"),
        editorTile(5, 11, "SPIKE", "custom-5-11"),
        [editorTile(6, 9, "GOAL", "custom-6-9")
            EXCEPT !.properties.fake = TRUE],
        editorTile(2, 9, "SPIKE", "custom-2-9") >>]

\* A third grid, painted in this order:
\*   WALL (2,11) (3,11) (4,11) (5,11) (6,11)   FALLING_SPIKE (4,5)
\*   GOAL (6,10)   PLAYER_START (3,10)
\* The spike hangs above the floor, one tile right of the start.
ambushLevel ==
    [id |-> 11, startPos |-> [x |-> 3 * TILE_SIZE, y |-> 10 * TILE_SIZE],
     width |-> EDITOR_COLS * TILE_SIZE, height |-> EDITOR_ROWS * TILE_SIZE,
     entities |-> <<
        editorTile(2, 11, "WALL", "custom-2-11"),
        editorTile(3, 11, "WALL", "custom-3-11"),
        editorTile(4, 11, "WALL", "custom-4-11"),
        editorTile(5, 11, "WALL", "custom-5-11"),
        editorTile(6, 11, "WALL", "custom-6-11"),
        [editorTile(4, 5, "SPIKE", "custom-4-5")
            EXCEPT !.properties.fallingStrategy = "proximity"],
        editorTile(6, 10, "GOAL", "custom-6-10") >>]

\* LevelEditor.tsx: the tools of the palette
Tools ==
    { "WALL", "SPIKE", "GOAL", "PLAYER_START", "FAKE_WALL", "GHOST_WALL",
      "TRAP_WALL", "FALLING_SPIKE", "FAKE_GOAL", "ERASER" }

\* the effect's default grid: a floor of walls on the last row
defaultFloor ==
    [k \in 1..EDITOR_COLS |-> [c |-> k - 1, r |-> EDITOR_ROWS - 1, type |-> "WALL"]]

\* a load that takes every wall with properties for a trap wall
gridOfTrapsFirst(lvl) ==
    LET cell(v) == (2 * v + TILE_SIZE) \div (2 * TILE_SIZE)
        tool(ent) ==
            CASE ent.type = "WALL" ->
                    IF ~ent.collidable THEN "FAKE_WALL"
                    ELSE IF ent.properties.ghost \/ ent.properties.trap
                    THEN "TRAP_WALL"
                    ELSE "WALL"
              [] ent.type = "SPIKE" ->
                    IF ent.properties.fallingStrategy # "" THEN "FALLING_SPIKE"
                    ELSE "SPIKE"
              [] ent.type = "GOAL" ->
                    IF ent.properties.fake THEN "FAKE_GOAL" ELSE "GOAL"
              [] OTHER -> ""
        entry(i) == IF i = 0
                    THEN [c |-> cell(lvl.startPos.x), r |-> cell(lvl.startPos.y),
                          type |-> "PLAYER_START"]
                    ELSE [c |-> cell(lvl.entities[i].x),
                          r |-> cell(lvl.entities[i].y),
                          type |-> tool(lvl.entities[i])]
        same(i, j) == entry(i).c = entry(j).c /\ entry(i).r = entry(j).r
        n == Len(lvl.entities)
        used == {i \in 0..n : entry(i).type # ""}
        \* the entries that are the first of their cell, and for each the
        \* last entry of that cell, whose tool it ends with
        firsts == {i \in used : \A j \in used : same(i, j) => i <= j}
        final(i) == CHOOSE j \in used :
                       same(i, j) /\ \A k \in used : same(i, k) => k <= j
        RECURSIVE build(_)
        build(i) ==
            IF i > n THEN <<>>
            ELSE IF i \in firsts
            THEN <<[entry(i) EXCEPT !.type = entry(final(i)).type]>> \o build(i + 1)
            ELSE build(i + 1)
    IN  build(0)

\* LevelEditor.tsx, the effect's grid for initialData: the start, then the
\* entities in their order, each on the cell its x and y round to
\* (Math.round(v / TILE_SIZE)); a later entry of a cell replaces the tool
\* of an earlier one, which keeps its place
gridOf(lvl) ==
    LET cell(v) == (2 * v + TILE_SIZE) \div (2 * TILE_SIZE)
        tool(ent) ==
            CASE ent.type = "WALL" ->
                    IF ent.properties.ghost THEN "GHOST_WALL"
                    ELSE IF ent.properties.trap THEN "TRAP_WALL"
                    ELSE IF ~ent.collidable THEN "FAKE_WALL"
                    ELSE "WALL"
              [] ent.type = "SPIKE" ->
                    IF ent.properties.fallingStrategy # "" THEN "FALLING_SPIKE"
                    ELSE "SPIKE"
              [] ent.type = "GOAL" ->
                    IF ent.properties.fake THEN "FAKE_GOAL" ELSE "GOAL"
              [] OTHER -> ""
        entry(i) == IF i = 0
                    THEN [c |-> cell(lvl.startPos.x), r |-> cell(lvl.startPos.y),
                          type |-> "PLAYER_START"]
                    ELSE [c |-> cell(lvl.entities[i].x),
                          r |-> cell(lvl.entities[i].y),
                          type |-> tool(lvl.entities[i])]
        same(i, j) == entry(i).c = entry(j).c /\ entry(i).r = entry(j).r
        n == Len(lvl.entities)
        used == {i \in 0..n : entry(i).type # ""}
        \* the entries that are the first of their cell, and for each the
        \* last entry of that cell, whose tool it ends with
        firsts == {i \in used : \A j \in used : same(i, j) => i <= j}
        final(i) == CHOOSE j \in used :
                       same(i, j) /\ \A k \in used : same(i, k) => k <= j
        RECURSIVE build(_)
        build(i) ==
            IF i > n THEN <<>>
            ELSE IF i \in firsts
            THEN <<[entry(i) EXCEPT !.type = entry(final(i)).type]>> \o build(i + 1)
            ELSE build(i + 1)
    IN  build(0)

\* a paint that leaves the other starts where they are
paintKeepsStarts(g, tool, c, r) ==
    LET here(e) == e.c = c /\ e.r = r
        notHere(e) == ~here(e)
        set(h) == IF \E i \in DOMAIN h : here(h[i])
                  THEN [i \in DOMAIN h |->
                          IF here(h[i]) THEN [h[i] EXCEPT !.type = tool]
                          ELSE h[i]]
                  ELSE Append(h, [c |-> c, r |-> r, type |-> tool])
    IN  IF tool = "ERASER" THEN SelectSeq(g, notHere)
        ELSE set(g)

\* LevelEditor.tsx paint: the grid after painting (c, r) with the tool.
\* Map.delete takes the entry out; Map.set leaves a key already in the Map
\* in its place and puts a new one last
paint(g, tool, c, r) ==
    LET here(e) == e.c = c /\ e.r = r
        notHere(e) == ~here(e)
        notStart(e) == e.type # "PLAYER_START"
        set(h) == IF \E i \in DOMAIN h : here(h[i])
                  THEN [i \in DOMAIN h |->
                          IF here(h[i]) THEN [h[i] EXCEPT !.type = tool]
                          ELSE h[i]]
                  ELSE Append(h, [c |-> c, r |-> r, type |-> tool])
    IN  IF tool = "ERASER" THEN SelectSeq(g, notHere)
        ELSE IF tool = "PLAYER_START" THEN set(SelectSeq(g, notStart))
        ELSE set(g)

\* a save whose walls are all solid
compileCellAllSolid(e) ==
    LET id == "custom-" \o ToString(e.c) \o "-" \o ToString(e.r)
        tile(type) == createRect(e.c, e.r, 1, 1, type, id)
    IN  CASE e.type = "GOAL" -> tile("GOAL")
          [] e.type = "FAKE_GOAL" ->
                [tile("GOAL") EXCEPT !.properties.fake = TRUE]
          [] e.type \in {"WALL", "FAKE_WALL"} -> tile("WALL")
          [] e.type = "GHOST_WALL" ->
                [tile("WALL") EXCEPT !.properties.ghost = TRUE]
          [] e.type = "TRAP_WALL" ->
                [tile("WALL") EXCEPT !.properties.trap = TRUE]
          [] e.type = "SPIKE" -> tile("SPIKE")
          [] e.type = "FALLING_SPIKE" ->
                [tile("SPIKE") EXCEPT !.properties.fallingStrategy = "proximity"]

\* handleSave: the entity pushed for one cell that is not the start (its
\* id without the Date.now() it ends with)
compileCell(e) ==
    LET id == "custom-" \o ToString(e.c) \o "-" \o ToString(e.r)
        tile(type) == createRect(e.c, e.r, 1, 1, type, id)
    IN  CASE e.type = "GOAL" -> tile("GOAL")
          [] e.type = "FAKE_GOAL" ->
                [tile("GOAL") EXCEPT !.properties.fake = TRUE]
          [] e.type = "WALL" -> tile("WALL")
          [] e.type = "FAKE_WALL" -> [tile("WALL") EXCEPT !.collidable = FALSE]
          [] e.type = "GHOST_WALL" ->
                [tile("WALL") EXCEPT !.properties.ghost = TRUE]
          [] e.type = "TRAP_WALL" ->
                [tile("WALL") EXCEPT !.properties.trap = TRUE]
          [] e.type = "SPIKE" -> tile("SPIKE")
          [] e.type = "FALLING_SPIKE" ->
                [tile("SPIKE") EXCEPT !.properties.fallingStrategy = "proximity"]

\* LevelEditor.tsx handleSave on the grid g of a new level numbered id:
\* the error it sets, and the level it hands to onSave if it does
handleSave(g, id) ==
    LET isStart(e) == e.type = "PLAYER_START"
        isTile(e) == e.type # "PLAYER_START"
        starts == SelectSeq(g, isStart)
        tiles == SelectSeq(g, isTile)
    IN  IF starts = <<>>
        THEN [error |-> "You must place a Player Start position.",
              saved |-> FALSE]
        ELSE IF ~\E i \in DOMAIN g : g[i].type = "GOAL"
        THEN [error |-> "You must place at least one Goal (or Fake Goal, if you're cruel).",
              saved |-> FALSE]
        ELSE [error |-> "null", saved |-> TRUE,
              level |-> [id |-> id,
                         startPos |-> [x |-> starts[Len(starts)].c * TILE_SIZE,
                                       y |-> starts[Len(starts)].r * TILE_SIZE],
                         width |-> EDITOR_COLS * TILE_SIZE,
                         height |-> EDITOR_ROWS * TILE_SIZE,
                         entities |-> [i \in DOMAIN tiles |-> compileCell(tiles[i])]]]

\* ------------------------------------------------------------------------
\* State
\* ------------------------------------------------------------------------
VARIABLES
    customLevels,       \* App: useState<LevelData[]>, levels after LEVELS
    currentLevelIndex,  \* App: index into allLevels, from 0
    gameStatus,         \* App: GameStatus, the canvas's `status` prop
    player,             \* GameCanvas: playerRef.current
    entities,           \* GameCanvas: entitiesRef.current, the working copy
    particles,          \* GameCanvas: particlesRef.current
    frameCount,         \* GameCanvas: frameCountRef.current
    keys,               \* GameCanvas: keysRef.current, the codes held down
    report,             \* what the last update() call told App:
                        \*   "" nothing, "WIN" onWin(), else onDie's cause
    keyEvents,          \* number of key events so far (bounds the input)
    frameLimit,         \* playing frames explored of one attempt
    deathCount,         \* App: useState(0), the DEATHS counter
    taunt,              \* App: useState(""), the text of the death overlay
    loadingTaunt,       \* App: useState(false)
    requests,           \* the generateContent calls in flight, oldest first
    ai,                 \* geminiService: the client exists and API_KEY is set
    deathLimit,         \* deaths of one behaviour (0: any number, with
                        \*   App's counter and taunt left out of it)
    grid,               \* LevelEditor: the Map of painted cells, as its
                        \*   entries [c, r, type] in insertion order
    activeTool,         \* LevelEditor: useState(EntityType.WALL)
    isDrawing,          \* LevelEditor: useState(false)
    error,              \* LevelEditor: useState(null), "null" or a message
    editingLevel,       \* App: useState(null), the editor's initialData:
                        \*   <<>> for null, <<level>> for a level
    loop                \* GameCanvas: the tick effect's loop and the render
                        \*   of a status change.  "prompt": the render and
                        \*   its effects come with the status change;
                        \*   "late": they come after the next tick, none
                        \*   pending; "stale": a status change is reported,
                        \*   the loop still calls the update of the render
                        \*   before it and the effects have not run

vars ==
    << customLevels, currentLevelIndex, gameStatus, player, entities,
       particles, frameCount, keys, report, keyEvents, frameLimit,
       deathCount, taunt, loadingTaunt, requests, ai, deathLimit,
       grid, activeTool, isDrawing, error, editingLevel, loop >>

\* the state of LevelEditor, and its initialData
editorVars == << grid, activeTool, isDrawing, error, editingLevel >>

\* App's death counter and taunt, and the service behind them
tauntVars == << deathCount, taunt, loadingTaunt, requests, ai, deathLimit >>

\* App.tsx: allLevels and currentLevel (JavaScript indexes from 0)
allLevels == LEVELS \o customLevels
currentLevel ==
    IF currentLevelIndex + 1 \in DOMAIN allLevels
    THEN allLevels[currentLevelIndex + 1]
    ELSE LEVELS[1]

\* ------------------------------------------------------------------------
\* GameCanvas.tsx: geometry
\* ------------------------------------------------------------------------
checkCollision(rect1, rect2) ==
    /\ rect1.x < rect2.x + rect2.w
    /\ rect1.x + rect1.w > rect2.x
    /\ rect1.y < rect2.y + rect2.h
    /\ rect1.y + rect1.h > rect2.y

\* { x: player.pos.x, y: player.pos.y, w: PLAYER_SIZE, h: PLAYER_SIZE }
playerRectOf(p) ==
    [x |-> p.pos.x, y |-> p.pos.y, w |-> PLAYER_SIZE, h |-> PLAYER_SIZE]

\* entities.find(e => e.id === id): the first index with that id, 0 if none
findIndex(ents, id) ==
    IF \E i \in DOMAIN ents : ents[i].id = id
    THEN CHOOSE i \in DOMAIN ents :
            /\ ents[i].id = id
            /\ \A j \in DOMAIN ents : ents[j].id = id => i <= j
    ELSE 0

\* ------------------------------------------------------------------------
\* GameCanvas.tsx updateLevelMechanics: the generic, property-driven
\* mechanics.  Each is written for one entity; the program's
\* filter(...).forEach applies it to every entity that carries the marker.
\* ------------------------------------------------------------------------

\* a trap wall whose countdown runs only while the player stands on it
trapWallWhileTouched(trap, p) ==
    LET trapRect == [x |-> trap.x, y |-> trap.y - PX(5), w |-> trap.w, h |-> trap.h]
        contact ==
            /\ trap.visible /\ trap.collidable
            /\ checkCollision(playerRectOf(p), trapRect) /\ p.isGrounded
        t1 == IF contact /\ ~trap.properties.triggered
              THEN [trap EXCEPT !.properties.triggered = TRUE,
                                !.properties.timer = <<0>>]
              ELSE trap
        timer == Inc(t1.properties.timer)
    IN  IF t1.properties.triggered /\ contact
        THEN [t1 EXCEPT !.properties.timer = timer,
                        !.visible = IF Exceeds(timer, 20) THEN FALSE ELSE @,
                        !.collidable = IF Exceeds(timer, 20) THEN FALSE ELSE @]
        ELSE t1

\* Generic: Trap Walls (Crumble when touched), one `trap` entity
trapWall(trap, p) ==
    LET trapRect == [x |-> trap.x, y |-> trap.y - PX(5), w |-> trap.w, h |-> trap.h]
        touched ==
            /\ trap.visible /\ trap.collidable
            /\ checkCollision(playerRectOf(p), trapRect) /\ p.isGrounded
            /\ ~trap.properties.triggered
        t1 == IF touched
              THEN [trap EXCEPT !.properties.triggered = TRUE,
                                !.properties.timer = <<0>>]
              ELSE trap
        timer == Inc(t1.properties.timer)
    IN  IF t1.properties.triggered
        THEN [t1 EXCEPT !.properties.timer = timer,
                        !.visible = IF Exceeds(timer, 20) THEN FALSE ELSE @,
                        !.collidable = IF Exceeds(timer, 20) THEN FALSE ELSE @]
        ELSE t1

\* a falling spike that starts to fall in the frame that triggers it
fallingSpikeAtOnce(spike, p) ==
    LET xDist == Abs((spike.x + spike.w \div 2) - (p.pos.x + PLAYER_SIZE \div 2))
    IN  IF spike.properties.triggered \/ (xDist < PLAYER_SIZE /\ p.pos.y > spike.y)
        THEN [spike EXCEPT !.properties.triggered = TRUE, !.y = @ + PX(9)]
        ELSE spike

\* Generic: Falling Spikes (Proximity triggered), one such entity
fallingSpike(spike, p) ==
    IF ~spike.properties.triggered
    THEN LET xDist == Abs((spike.x + spike.w \div 2) - (p.pos.x + PLAYER_SIZE \div 2))
             isUnder == xDist < PLAYER_SIZE
             isBelow == p.pos.y > spike.y
         IN  IF isUnder /\ isBelow
             THEN [spike EXCEPT !.properties.triggered = TRUE]
             ELSE spike
    ELSE [spike EXCEPT !.y = @ + PX(9)]

genericMechanics(ents, p) ==
    LET afterTraps ==
            [i \in DOMAIN ents |->
                IF ents[i].properties.trap THEN trapWall(ents[i], p) ELSE ents[i]]
    IN  [i \in DOMAIN ents |->
            IF afterTraps[i].properties.fallingStrategy = "proximity"
            THEN fallingSpike(afterTraps[i], p)
            ELSE afterTraps[i]]

\* ------------------------------------------------------------------------
\* GameCanvas.tsx updateLevelMechanics: the hardcoded campaign levels
\* ------------------------------------------------------------------------

\* Level 1: Trust Issues (Hidden Block)
mechanicsLevel1(ents, p) ==
    LET i == findIndex(ents, "troll-block")
    IN  IF p.pos.x > 7 * TILE_SIZE /\ p.pos.y < 8 * TILE_SIZE /\ i # 0
        THEN [ents EXCEPT ![i].visible = TRUE]
        ELSE ents

\* a level 2 whose goal slides on without a cap
mechanicsLevel2NoCap(ents, p) ==
    LET i == findIndex(ents, "goal")
    IN  IF p.pos.x > 8 * TILE_SIZE /\ i # 0
        THEN [ents EXCEPT ![i].x = @ + PX(8)]
        ELSE ents

\* Level 2: Commitment Issues (Moving Goal)
mechanicsLevel2(ents, p) ==
    LET i == findIndex(ents, "goal")
    IN  IF p.pos.x > 8 * TILE_SIZE /\ i # 0 /\ ents[i].x < 18 * TILE_SIZE
        THEN [ents EXCEPT ![i].x = @ + PX(8)]
        ELSE ents

\* e.id.includes('fall-spike'), over the ids the levels use
includesFallSpike(id) == id \in {"fall-spike-1", "fall-spike-2"}

\* a level 3 spike that the jitter moves, not its displayX alone
sandwichSpikeShakesAside(spike, p, jitterX) ==
    LET s1 == IF /\ ~spike.properties.falling /\ ~spike.properties.shaking
                 /\ Abs(p.pos.x - spike.x) < (5 * TILE_SIZE) \div 2
              THEN [spike EXCEPT !.properties.shaking = TRUE,
                                 !.properties.shakeTimer = <<0>>]
              ELSE spike
        timer == Inc(s1.properties.shakeTimer)
        s2 == IF s1.properties.shaking
              THEN IF Exceeds(timer, 30)
                   THEN [s1 EXCEPT !.properties.shakeTimer = timer,
                                   !.properties.shaking = FALSE,
                                   !.properties.falling = TRUE,
                                   !.properties.displayX = <<s1.x>>]
                   ELSE [s1 EXCEPT !.properties.shakeTimer = timer,
                                   !.x = @ + jitterX,
                                   !.properties.displayX = <<s1.x + jitterX>>]
              ELSE [s1 EXCEPT !.properties.displayX = <<s1.x>>]
    IN  IF s2.properties.falling THEN [s2 EXCEPT !.y = @ + PX(9)] ELSE s2

\* Level 3: Sandwich (Falling Spikes), one spike; jitterX is the frame's
\* (Math.random() - 0.5) * 8
sandwichSpike(spike, p, jitterX) ==
    LET s1 == IF /\ ~spike.properties.falling /\ ~spike.properties.shaking
                 /\ Abs(p.pos.x - spike.x) < (5 * TILE_SIZE) \div 2
              THEN [spike EXCEPT !.properties.shaking = TRUE,
                                 !.properties.shakeTimer = <<0>>]
              ELSE spike
        timer == Inc(s1.properties.shakeTimer)
        s2 == IF s1.properties.shaking
              THEN IF Exceeds(timer, 30)
                   THEN [s1 EXCEPT !.properties.shakeTimer = timer,
                                   !.properties.shaking = FALSE,
                                   !.properties.falling = TRUE,
                                   !.properties.displayX = <<s1.x>>]
                   ELSE [s1 EXCEPT !.properties.shakeTimer = timer,
                                   !.properties.displayX = <<s1.x + jitterX>>]
              ELSE [s1 EXCEPT !.properties.displayX = <<s1.x>>]
    IN  IF s2.properties.falling THEN [s2 EXCEPT !.y = @ + PX(9)] ELSE s2

mechanicsLevel3(ents, p, jitterX) ==
    [i \in DOMAIN ents |->
        IF includesFallSpike(ents[i].id)
        THEN sandwichSpike(ents[i], p, jitterX)
        ELSE ents[i]]

\* a level 4 whose platform goes when the countdown reaches 20
mechanicsLevel4Early(ents, p) ==
    LET i == findIndex(ents, "trap-plat")
    IN  IF i = 0 THEN ents
        ELSE
        LET trap == ents[i]
            trapRect == [x |-> trap.x, y |-> trap.y - PX(5), w |-> trap.w, h |-> trap.h]
            touched ==
                /\ checkCollision(playerRectOf(p), trapRect) /\ p.isGrounded
                /\ ~trap.properties.triggered
            t1 == IF touched
                  THEN [trap EXCEPT !.properties.triggered = TRUE,
                                    !.properties.timer = <<0>>]
                  ELSE trap
            timer == Inc(t1.properties.timer)
            t2 == IF t1.properties.triggered
                  THEN [t1 EXCEPT !.properties.timer = timer,
                           !.visible = IF Exceeds(timer, 19) THEN FALSE ELSE @,
                           !.collidable = IF Exceeds(timer, 19) THEN FALSE ELSE @]
                  ELSE t1
        IN  [ents EXCEPT ![i] = t2]

\* Level 4: Ghosted (Disappearing platform)
mechanicsLevel4(ents, p) ==
    LET i == findIndex(ents, "trap-plat")
    IN  IF i = 0 THEN ents
        ELSE
        LET trap == ents[i]
            trapRect == [x |-> trap.x, y |-> trap.y - PX(5), w |-> trap.w, h |-> trap.h]
            touched ==
                /\ checkCollision(playerRectOf(p), trapRect) /\ p.isGrounded
                /\ ~trap.properties.triggered
            t1 == IF touched
                  THEN [trap EXCEPT !.properties.triggered = TRUE,
                                    !.properties.timer = <<0>>]
                  ELSE trap
            timer == Inc(t1.properties.timer)
            t2 == IF t1.properties.triggered
                  THEN [t1 EXCEPT !.properties.timer = timer,
                           !.visible = IF Exceeds(timer, 20) THEN FALSE ELSE @,
                           !.collidable = IF Exceeds(timer, 20) THEN FALSE ELSE @]
                  ELSE t1
        IN  [ents EXCEPT ![i] = t2]

\* e.id.includes('inv-spike'), over the ids the levels use
includesInvSpike(id) == id \in {"inv-spike-1"}

\* Level 5: Blind Faith (Pulsing opacity for hint).  The opacity is
\* 0.65 + sin(frameCount / 15) * 0.35, read by draw() alone; the slot keeps
\* the frame count it is computed from.
mechanicsLevel5(ents, fc) ==
    [i \in DOMAIN ents |->
        IF includesInvSpike(ents[i].id)
        THEN [ents[i] EXCEPT !.properties.opacity = <<fc>>]
        ELSE ents[i]]

\* a level 7 whose pillar stops on the first frame that ends below the
\* floor line, and not on the line
mechanicsLevel7Overshoot(ents, p) ==
    LET i == findIndex(ents, "falling-pillar")
    IN  IF i = 0 THEN ents
        ELSE
        LET pillar == ents[i]
            triggered == pillar.properties.triggered \/ p.pos.x > 5 * TILE_SIZE
            floorY == 12 * TILE_SIZE
            landed == pillar.y + pillar.h >= floorY
            vy == IF landed THEN 0 ELSE pillar.properties.vy + 800
        IN  IF ~triggered THEN ents
            ELSE [ents EXCEPT ![i].properties.triggered = TRUE,
                              ![i].y = @ + vy,
                              ![i].properties.vy = vy]

\* Level 7: Timber (Falling Pillar)
mechanicsLevel7(ents, p) ==
    LET i == findIndex(ents, "falling-pillar")
    IN  IF i = 0 THEN ents
        ELSE
        LET pillar == ents[i]
            triggered == pillar.properties.triggered \/ p.pos.x > 5 * TILE_SIZE
            vy == pillar.properties.vy + 800
            y == pillar.y + vy
            floorY == 12 * TILE_SIZE
        IN  IF ~triggered THEN ents
            ELSE IF y + pillar.h >= floorY
            THEN [ents EXCEPT ![i].properties.triggered = TRUE,
                              ![i].y = floorY - pillar.h,
                              ![i].properties.vy = 0]
            ELSE [ents EXCEPT ![i].properties.triggered = TRUE,
                              ![i].y = y,
                              ![i].properties.vy = vy]

\* Level 8: The Press (Crushing Ceiling)
mechanicsLevel8(ents) ==
    LET i == findIndex(ents, "crushing-ceiling")
    IN  IF i = 0 THEN ents ELSE [ents EXCEPT ![i].y = @ + 600]

\* a shark that attacks a moving player and retreats from a still one
mechanicsLevel9Shy(ents, p) ==
    LET i == findIndex(ents, "shark-spike")
    IN  IF i = 0 THEN ents
        ELSE
        LET shark == ents[i]
            isMoving == Abs(p.vel.x) > 100
            floorY == 12 * TILE_SIZE
        IN  [ents EXCEPT
                ![i].x = p.pos.x + (PLAYER_SIZE - shark.w) \div 2,
                ![i].y = IF isMoving
                         THEN Max(floorY - PX(30), shark.y - PX(5))
                         ELSE Min(floorY + PX(10), shark.y + PX(2))]

\* Level 9: Shark (Tracking Spike)
mechanicsLevel9(ents, p) ==
    LET i == findIndex(ents, "shark-spike")
    IN  IF i = 0 THEN ents
        ELSE
        LET shark == ents[i]
            isMoving == Abs(p.vel.x) > 100
            floorY == 12 * TILE_SIZE
        IN  [ents EXCEPT
                ![i].x = p.pos.x + (PLAYER_SIZE - shark.w) \div 2,
                ![i].y = IF ~isMoving
                         THEN Max(floorY - PX(30), shark.y - PX(5))
                         ELSE Min(floorY + PX(10), shark.y + PX(2))]

\* a reveal that does not look at fakeGoal.visible
revealFiresAgain(ents, p) ==
    LET i == findIndex(ents, "fake-goal")
    IN  i # 0 /\ checkCollision(playerRectOf(p), ents[i])

\* Level 10: Level Devil (Teleporting Goal).  TRUE when this frame's
\* mechanic fires the reveal (and so calls spawnParticles at the decoy).
revealFires(ents, p) ==
    LET i == findIndex(ents, "fake-goal")
    IN  i # 0 /\ ents[i].visible /\ checkCollision(playerRectOf(p), ents[i])

\* a reveal that shows the stairs and leaves the real goal hidden
mechanicsLevel10StairsOnly(ents, p) ==
    IF ~revealFires(ents, p) THEN ents
    ELSE
    LET fake == findIndex(ents, "fake-goal")
    IN  [i \in DOMAIN ents |->
            IF i = fake
            THEN [ents[i] EXCEPT !.visible = FALSE, !.collidable = FALSE]
            ELSE IF ents[i].id \in {"s1", "s2", "s3", "s4"}
            THEN [ents[i] EXCEPT !.visible = TRUE]
            ELSE ents[i]]

mechanicsLevel10(ents, p) ==
    IF ~revealFires(ents, p) THEN ents
    ELSE
    LET fake == findIndex(ents, "fake-goal")
        real == findIndex(ents, "real-goal")
    IN  [i \in DOMAIN ents |->
            IF i = fake
            THEN [ents[i] EXCEPT !.visible = FALSE, !.collidable = FALSE]
            ELSE IF i = real
            THEN [ents[i] EXCEPT !.visible = TRUE, !.collidable = TRUE]
            ELSE IF ents[i].id \in {"s1", "s2", "s3", "s4"}
            THEN [ents[i] EXCEPT !.visible = TRUE]
            ELSE ents[i]]

\* mechanics that run level 2's script whatever the level is
updateLevelMechanicsAnyLevel(levelId, ents, p, fc, jitterX) ==
    LET g == mechanicsLevel2(genericMechanics(ents, p), p)
    IN  CASE levelId = 1 -> mechanicsLevel1(g, p)
          [] levelId = 3 -> mechanicsLevel3(g, p, jitterX)
          [] levelId = 4 -> mechanicsLevel4(g, p)
          [] levelId = 5 -> mechanicsLevel5(g, fc)
          [] levelId = 7 -> mechanicsLevel7(g, p)
          [] levelId = 8 -> mechanicsLevel8(g)
          [] levelId = 9 -> mechanicsLevel9(g, p)
          [] levelId = 10 -> mechanicsLevel10(g, p)
          [] OTHER -> g

\* updateLevelMechanics(levelId): the entity list after the generic
\* mechanics and then the script of levelId
updateLevelMechanics(levelId, ents, p, fc, jitterX) ==
    LET g == genericMechanics(ents, p)
    IN  CASE levelId = 1 -> mechanicsLevel1(g, p)
          [] levelId = 2 -> mechanicsLevel2(g, p)
          [] levelId = 3 -> mechanicsLevel3(g, p, jitterX)
          [] levelId = 4 -> mechanicsLevel4(g, p)
          [] levelId = 5 -> mechanicsLevel5(g, fc)
          [] levelId = 7 -> mechanicsLevel7(g, p)
          [] levelId = 8 -> mechanicsLevel8(g)
          [] levelId = 9 -> mechanicsLevel9(g, p)
          [] levelId = 10 -> mechanicsLevel10(g, p)
          [] OTHER -> g

\* ------------------------------------------------------------------------
\* GameCanvas.tsx update: 1. Apply Physics
\* ------------------------------------------------------------------------
holdsRight(ks) == "ArrowRight" \in ks \/ "KeyD" \in ks
holdsLeft(ks) == "ArrowLeft" \in ks \/ "KeyA" \in ks
holdsJump(ks) == "Space" \in ks \/ "ArrowUp" \in ks \/ "KeyW" \in ks

\* a velocity update that lets the jump key act in the air
applyPhysicsAirJump(p, ks) ==
    LET slowed == FRICTION(p.vel.x)
        velX == IF holdsRight(ks) THEN MOVE_SPEED
                ELSE IF holdsLeft(ks) THEN -MOVE_SPEED
                ELSE IF Abs(slowed) < 100 THEN 0 ELSE slowed
        faceRight == IF holdsRight(ks) THEN TRUE
                     ELSE IF holdsLeft(ks) THEN FALSE
                     ELSE p.faceRight
        jumps == holdsJump(ks)
        velY == (IF jumps THEN JUMP_FORCE ELSE p.vel.y) + GRAVITY
    IN  [p EXCEPT !.vel.x = velX,
                  !.vel.y = IF velY > MAX_FALL_SPEED THEN MAX_FALL_SPEED ELSE velY,
                  !.isGrounded = IF jumps THEN FALSE ELSE @,
                  !.faceRight = faceRight]

\* a velocity update whose jump leaves isGrounded as it was
applyPhysicsStaysGrounded(p, ks) ==
    LET slowed == FRICTION(p.vel.x)
        velX == IF holdsRight(ks) THEN MOVE_SPEED
                ELSE IF holdsLeft(ks) THEN -MOVE_SPEED
                ELSE IF Abs(slowed) < 100 THEN 0 ELSE slowed
        faceRight == IF holdsRight(ks) THEN TRUE
                     ELSE IF holdsLeft(ks) THEN FALSE
                     ELSE p.faceRight
        jumps == holdsJump(ks) /\ p.isGrounded
        velY == (IF jumps THEN JUMP_FORCE ELSE p.vel.y) + GRAVITY
    IN  [p EXCEPT !.vel.x = velX,
                  !.vel.y = IF velY > MAX_FALL_SPEED THEN MAX_FALL_SPEED ELSE velY,
                  !.faceRight = faceRight]

applyPhysics(p, ks) ==
    LET slowed == FRICTION(p.vel.x)
        velX == IF holdsRight(ks) THEN MOVE_SPEED
                ELSE IF holdsLeft(ks) THEN -MOVE_SPEED
                ELSE IF Abs(slowed) < 100 THEN 0 ELSE slowed
        faceRight == IF holdsRight(ks) THEN TRUE
                     ELSE IF holdsLeft(ks) THEN FALSE
                     ELSE p.faceRight
        jumps == holdsJump(ks) /\ p.isGrounded
        velY == (IF jumps THEN JUMP_FORCE ELSE p.vel.y) + GRAVITY
    IN  [p EXCEPT !.vel.x = velX,
                  !.vel.y = IF velY > MAX_FALL_SPEED THEN MAX_FALL_SPEED ELSE velY,
                  !.isGrounded = IF jumps THEN FALSE ELSE @,
                  !.faceRight = faceRight]

\* ------------------------------------------------------------------------
\* GameCanvas.tsx update: 3. Horizontal Movement & Collision
\* ------------------------------------------------------------------------
moveHorizontal(p, lvl) ==
    LET x == p.pos.x + p.vel.x
        x0 == IF x < 0 THEN 0 ELSE x
    IN  [p EXCEPT !.pos.x =
            IF x0 > lvl.width - PLAYER_SIZE THEN lvl.width - PLAYER_SIZE ELSE x0]

\* a horizontal loop body that leaves out `if (!ent.collidable) continue`
resolveHorizontalAnyWall(p, playerRectH, ent) ==
    IF ent.type = "WALL" /\ checkCollision(playerRectH, ent)
    THEN [p EXCEPT !.pos.x = IF p.vel.x > 0 THEN ent.x - PLAYER_SIZE
                             ELSE IF p.vel.x < 0 THEN ent.x + ent.w
                             ELSE @,
                   !.vel.x = 0]
    ELSE p

\* the body of the horizontal loop for one entity; playerRectH is the
\* rectangle taken before the loop
resolveHorizontal(p, playerRectH, ent) ==
    IF ent.collidable /\ ent.type = "WALL" /\ checkCollision(playerRectH, ent)
    THEN [p EXCEPT !.pos.x = IF p.vel.x > 0 THEN ent.x - PLAYER_SIZE
                             ELSE IF p.vel.x < 0 THEN ent.x + ent.w
                             ELSE @,
                   !.vel.x = 0]
    ELSE p

RECURSIVE horizontalLoop(_, _, _, _)
horizontalLoop(p, playerRectH, ents, i) ==
    IF i > Len(ents) THEN p
    ELSE horizontalLoop(resolveHorizontal(p, playerRectH, ents[i]),
                        playerRectH, ents, i + 1)

horizontalPass(p, ents, lvl) ==
    LET moved == moveHorizontal(p, lvl)
    IN  horizontalLoop(moved, playerRectOf(moved), ents, 1)

\* ------------------------------------------------------------------------
\* GameCanvas.tsx update: 4. Vertical Movement & Collision
\* ------------------------------------------------------------------------
moveVertical(p) == [p EXCEPT !.pos.y = @ + p.vel.y]

fellIntoVoid(p, lvl) == p.pos.y > lvl.height + PX(100)

\* a loop body that snaps the falling player and leaves it its speed, so
\* that every overlapped wall snaps it in turn
resolveVerticalKeepsSpeed(pg, playerRectV, ent) ==
    IF ent.collidable /\ ent.type = "WALL" /\ checkCollision(playerRectV, ent)
    THEN IF pg.p.vel.y > 0
         THEN [p |-> [pg.p EXCEPT !.pos.y = ent.y - PLAYER_SIZE],
               groundedThisFrame |-> TRUE]
         ELSE IF pg.p.vel.y < 0
         THEN [pg EXCEPT !.p.pos.y = ent.y + ent.h, !.p.vel.y = 0]
         ELSE pg
    ELSE pg

\* the body of the vertical loop for one entity, on the pair
\* [p, groundedThisFrame]
resolveVertical(pg, playerRectV, ent) ==
    IF ent.collidable /\ ent.type = "WALL" /\ checkCollision(playerRectV, ent)
    THEN IF pg.p.vel.y > 0
         THEN [p |-> [pg.p EXCEPT !.pos.y = ent.y - PLAYER_SIZE, !.vel.y = 0],
               groundedThisFrame |-> TRUE]
         ELSE IF pg.p.vel.y < 0
         THEN [pg EXCEPT !.p.pos.y = ent.y + ent.h, !.p.vel.y = 0]
         ELSE pg
    ELSE pg

RECURSIVE verticalLoop(_, _, _, _)
verticalLoop(pg, playerRectV, ents, i) ==
    IF i > Len(ents) THEN pg
    ELSE verticalLoop(resolveVertical(pg, playerRectV, ents[i]),
                      playerRectV, ents, i + 1)

\* a vertical pass that keeps an earlier frame's isGrounded when this
\* frame's loop found no floor
verticalPassCarryOver(p, ents) ==
    LET pg == verticalLoop([p |-> p, groundedThisFrame |-> FALSE],
                           playerRectOf(p), ents, 1)
    IN  [pg.p EXCEPT !.isGrounded = pg.groundedThisFrame \/ p.isGrounded]

\* the loop, then player.isGrounded = groundedThisFrame; p has moved
verticalPass(p, ents) ==
    LET pg == verticalLoop([p |-> p, groundedThisFrame |-> FALSE],
                           playerRectOf(p), ents, 1)
    IN  [pg.p EXCEPT !.isGrounded = pg.groundedThisFrame]

\* ------------------------------------------------------------------------
\* GameCanvas.tsx update: 5. Trigger/Spike/Goal Checks
\* ------------------------------------------------------------------------
\* a spike test against the player's whole rectangle
spikePlayerHitboxWhole(p) == playerRectOf(p)

spikePlayerHitbox(p) ==
    [x |-> p.pos.x + PX(6), y |-> p.pos.y + PX(6),
     w |-> PLAYER_SIZE - PX(12), h |-> PLAYER_SIZE - PX(12)]

\* a goal check that does not read properties.fake
checkEntityDecoyWins(p, ent) ==
    IF ent.type = "SPIKE" /\ checkCollision(spikePlayerHitbox(p), ent)
    THEN "Spiked"
    ELSE IF ent.type = "GOAL" /\ checkCollision(playerRectOf(p), ent)
    THEN IF ent.id = "fake-goal" THEN "" ELSE "WIN"
    ELSE ""

\* a step 5 that looks at goals only
checkEntityGoalsOnly(p, ent) ==
    IF ent.type = "GOAL" /\ checkCollision(playerRectOf(p), ent)
    THEN IF ent.properties.fake THEN "It was a trap!"
         ELSE IF ent.id = "fake-goal" THEN ""
         ELSE "WIN"
    ELSE ""

\* a goal check without the 'fake-goal' id special case
checkEntityNoIdCase(p, ent) ==
    IF ent.type = "SPIKE" /\ checkCollision(spikePlayerHitbox(p), ent)
    THEN "Spiked"
    ELSE IF ent.type = "GOAL" /\ checkCollision(playerRectOf(p), ent)
    THEN IF ent.properties.fake THEN "It was a trap!" ELSE "WIN"
    ELSE ""

\* what one entity decides: "Spiked", "It was a trap!", "WIN", or ""
\* (the loop goes on to the next entity)
checkEntity(p, ent) ==
    IF ent.type = "SPIKE" /\ checkCollision(spikePlayerHitbox(p), ent)
    THEN "Spiked"
    ELSE IF ent.type = "GOAL" /\ checkCollision(playerRectOf(p), ent)
    THEN IF ent.properties.fake THEN "It was a trap!"
         ELSE IF ent.id = "fake-goal" THEN ""
         ELSE "WIN"
    ELSE ""

\* a step 5 that looks at every spike before any goal
hazardLoopSpikesFirst(p, ents, i) ==
    LET rest == i..Len(ents)
    IN  IF \E k \in rest : checkEntity(p, ents[k]) = "Spiked"
        THEN "Spiked"
        ELSE IF \E k \in rest : checkEntity(p, ents[k]) # ""
        THEN checkEntity(p, ents[CHOOSE k \in rest :
                                   /\ checkEntity(p, ents[k]) # ""
                                   /\ \A j \in i..(k - 1) :
                                         checkEntity(p, ents[j]) = ""])
        ELSE ""

RECURSIVE hazardLoop(_, _, _)
hazardLoop(p, ents, i) ==
    IF i > Len(ents) THEN ""
    ELSE IF checkEntity(p, ents[i]) # "" THEN checkEntity(p, ents[i])
    ELSE hazardLoop(p, ents, i + 1)

hazardCheck(p, ents) == hazardLoop(p, ents, 1)

\* ------------------------------------------------------------------------
\* GameCanvas.tsx: particles.  A particle keeps the fields update() reads
\* and writes (colour and size are drawn, never updated).  life and decay
\* are in 1/1000.  The random numbers of one spawnParticles call are one
\* element of ParticleDraws, shared by the particles of the burst.
\* ------------------------------------------------------------------------
BURST_SIZE == 20

ParticleDraws ==
    { [vx |-> 2500, vy |-> -6000, decay |-> 40],
      [vx |-> -7000, vy |-> 3000, decay |-> 25] }

spawnParticles(parts, x, y, draw) ==
    parts \o [i \in 1..BURST_SIZE |->
                [x |-> x + PLAYER_SIZE \div 2, y |-> y + PLAYER_SIZE \div 2,
                 vx |-> draw.vx, vy |-> draw.vy,
                 life |-> 1000, decay |-> draw.decay]]

\* a particle without weight
ageParticleWeightless(q) ==
    [q EXCEPT !.x = @ + q.vx, !.y = @ + q.vy, !.life = @ - q.decay]

\* update, 0. Update Particles
ageParticle(q) ==
    [q EXCEPT !.x = @ + q.vx, !.y = @ + q.vy,
              !.vy = @ + GRAVITY \div 2, !.life = @ - q.decay]

isAlive(q) == q.life > 0

ageParticles(parts) ==
    SelectSeq([i \in DOMAIN parts |-> ageParticle(parts[i])], isAlive)

\* ------------------------------------------------------------------------
\* GameCanvas.tsx useEffect (Initialize Level), run when `level` or
\* `status` changes: what it leaves in the refs, given the new status
\* ------------------------------------------------------------------------
freshPlayer(lvl) ==
    [pos |-> [x |-> lvl.startPos.x, y |-> lvl.startPos.y],
     vel |-> [x |-> 0, y |-> 0],
     isGrounded |-> FALSE, dead |-> FALSE, faceRight |-> TRUE]

\* an effect that resets the player after a death too
initializeLevelAlsoWhenDead(lvl, status, p, parts, fc) ==
    [player |-> freshPlayer(lvl), entities |-> lvl.entities,
     particles |-> <<>>, frameCount |-> 0]

initializeLevel(lvl, status, p, parts, fc) ==
    IF status # "DEAD"
    THEN [player |-> freshPlayer(lvl), entities |-> lvl.entities,
          particles |-> <<>>, frameCount |-> 0]
    ELSE [player |-> p, entities |-> lvl.entities,
          particles |-> parts, frameCount |-> fc]

\* a death after which the Initialize Level effect does not run: the
\* working list stays as the mechanics left it
handleDeathKeepsList(st, lvl, cause, draw) ==
    IF st.player.dead THEN st
    ELSE LET dead == [st.player EXCEPT !.dead = TRUE]
             burst == spawnParticles(st.particles, dead.pos.x, dead.pos.y, draw)
         IN  [player |-> dead, entities |-> st.entities,
              particles |-> burst, frameCount |-> st.frameCount,
              gameStatus |-> "DEAD", report |-> cause]

\* ------------------------------------------------------------------------
\* GameCanvas.tsx handleDeath, with App.handleDie's setGameStatus(DEAD) and
\* the Initialize Level effect that the status change runs.  st is the
\* frame's state so far: [player, entities, particles, frameCount,
\* gameStatus, report].
\* ------------------------------------------------------------------------
handleDeath(st, lvl, cause, draw) ==
    IF st.player.dead THEN st
    ELSE LET dead == [st.player EXCEPT !.dead = TRUE]
             burst == spawnParticles(st.particles, dead.pos.x, dead.pos.y, draw)
             eff == initializeLevel(lvl, "DEAD", dead, burst, st.frameCount)
         IN  [player |-> eff.player, entities |-> eff.entities,
              particles |-> eff.particles, frameCount |-> eff.frameCount,
              gameStatus |-> "DEAD", report |-> cause]

\* App.handleWin's setGameStatus(WIN) and the effect it runs
handleWin(st, lvl) ==
    LET eff == initializeLevel(lvl, "WIN", st.player, st.particles, st.frameCount)
    IN  [player |-> eff.player, entities |-> eff.entities,
         particles |-> eff.particles, frameCount |-> eff.frameCount,
         gameStatus |-> "WIN", report |-> "WIN"]

\* a frame that runs the mechanics after the two collision passes
playingFrameMechanicsLast(lvl, p, ents, parts, fc, ks, jitterX, draw) ==
    LET p1 == applyPhysics(p, ks)
        p2 == horizontalPass(p1, ents, lvl)
        p3 == moveVertical(p2)
        p4 == verticalPass(p3, ents)
        ents1 == updateLevelMechanics(lvl.id, ents, p4, fc, jitterX)
        g == genericMechanics(ents, p4)
        fake == findIndex(g, "fake-goal")
        parts1 == IF lvl.id = 10 /\ revealFires(g, p4)
                  THEN spawnParticles(parts, g[fake].x, g[fake].y, draw)
                  ELSE parts
        found == hazardCheck(p4, ents1)
        st(q) == [player |-> q, entities |-> ents1, particles |-> parts1,
                  frameCount |-> fc, gameStatus |-> "PLAYING", report |-> ""]
    IN  IF fellIntoVoid(p3, lvl)
        THEN handleDeath(st(p3), lvl, "Fell into the void", draw)
        ELSE IF found = "WIN" THEN handleWin(st(p4), lvl)
        ELSE IF found # "" THEN handleDeath(st(p4), lvl, found, draw)
        ELSE [st(p4) EXCEPT !.frameCount = fc + 1]

\* a frame that looks for the void after step 5, not before the vertical
\* loop
playingFrameVoidLast(lvl, p, ents, parts, fc, ks, jitterX, draw) ==
    LET p1 == applyPhysics(p, ks)
        ents1 == updateLevelMechanics(lvl.id, ents, p1, fc, jitterX)
        g == genericMechanics(ents, p1)
        fake == findIndex(g, "fake-goal")
        parts1 == IF lvl.id = 10 /\ revealFires(g, p1)
                  THEN spawnParticles(parts, g[fake].x, g[fake].y, draw)
                  ELSE parts
        p2 == horizontalPass(p1, ents1, lvl)
        p3 == moveVertical(p2)
        p4 == verticalPass(p3, ents1)
        found == hazardCheck(p4, ents1)
        st(q) == [player |-> q, entities |-> ents1, particles |-> parts1,
                  frameCount |-> fc, gameStatus |-> "PLAYING", report |-> ""]
    IN  IF found = "WIN" THEN handleWin(st(p4), lvl)
        ELSE IF found # "" THEN handleDeath(st(p4), lvl, found, draw)
        ELSE IF fellIntoVoid(p3, lvl)
        THEN handleDeath(st(p3), lvl, "Fell into the void", draw)
        ELSE [st(p4) EXCEPT !.frameCount = fc + 1]

\* ------------------------------------------------------------------------
\* GameCanvas.tsx update, the part after `if (status !== PLAYING) return`:
\* one playing frame.  parts are the particles already aged by step 0.
\* ------------------------------------------------------------------------
playingFrame(lvl, p, ents, parts, fc, ks, jitterX, draw) ==
    LET p1 == applyPhysics(p, ks)
        ents1 == updateLevelMechanics(lvl.id, ents, p1, fc, jitterX)
        g == genericMechanics(ents, p1)
        fake == findIndex(g, "fake-goal")
        parts1 == IF lvl.id = 10 /\ revealFires(g, p1)
                  THEN spawnParticles(parts, g[fake].x, g[fake].y, draw)
                  ELSE parts
        p2 == horizontalPass(p1, ents1, lvl)
        p3 == moveVertical(p2)
        p4 == verticalPass(p3, ents1)
        found == hazardCheck(p4, ents1)
        st(q) == [player |-> q, entities |-> ents1, particles |-> parts1,
                  frameCount |-> fc, gameStatus |-> "PLAYING", report |-> ""]
    IN  IF fellIntoVoid(p3, lvl)
        THEN handleDeath(st(p3), lvl, "Fell into the void", draw)
        ELSE IF found = "WIN" THEN handleWin(st(p4), lvl)
        ELSE IF found # "" THEN handleDeath(st(p4), lvl, found, draw)
        ELSE [st(p4) EXCEPT !.frameCount = fc + 1]

\* a frame whose second death bursts and reports like the first
frameOnRefsDiesTwice(lvl, p, ents, parts, fc, ks, jitterX, draw) ==
    LET p1 == applyPhysics(p, ks)
        ents1 == updateLevelMechanics(lvl.id, ents, p1, fc, jitterX)
        g == genericMechanics(ents, p1)
        fake == findIndex(g, "fake-goal")
        parts1 == IF lvl.id = 10 /\ revealFires(g, p1)
                  THEN spawnParticles(parts, g[fake].x, g[fake].y, draw)
                  ELSE parts
        p2 == horizontalPass(p1, ents1, lvl)
        p3 == moveVertical(p2)
        p4 == verticalPass(p3, ents1)
        found == hazardCheck(p4, ents1)
        st(q) == [player |-> q, entities |-> ents1, particles |-> parts1,
                  frameCount |-> fc, gameStatus |-> "PLAYING", report |-> ""]
        die(q, cause) ==
            [st(q) EXCEPT !.player.dead = TRUE,
                          !.particles = spawnParticles(parts1, q.pos.x, q.pos.y, draw),
                          !.gameStatus = "DEAD", !.report = cause]
        win(q) == [st(q) EXCEPT !.gameStatus = "WIN", !.report = "WIN"]
    IN  IF fellIntoVoid(p3, lvl) THEN die(p3, "Fell into the void")
        ELSE IF found = "WIN" THEN win(p4)
        ELSE IF found # "" THEN die(p4, found)
        ELSE [st(p4) EXCEPT !.frameCount = fc + 1]

\* ------------------------------------------------------------------------
\* GameCanvas.tsx update, the part after `if (status !== PLAYING) return`,
\* by what it leaves in the refs and tells App, before any render: the
\* frame of playingFrame without the effect of the status change.
\* handleDeath returns at once for a player that is dead already.
\* ------------------------------------------------------------------------
frameOnRefs(lvl, p, ents, parts, fc, ks, jitterX, draw) ==
    LET p1 == applyPhysics(p, ks)
        ents1 == updateLevelMechanics(lvl.id, ents, p1, fc, jitterX)
        g == genericMechanics(ents, p1)
        fake == findIndex(g, "fake-goal")
        parts1 == IF lvl.id = 10 /\ revealFires(g, p1)
                  THEN spawnParticles(parts, g[fake].x, g[fake].y, draw)
                  ELSE parts
        p2 == horizontalPass(p1, ents1, lvl)
        p3 == moveVertical(p2)
        p4 == verticalPass(p3, ents1)
        found == hazardCheck(p4, ents1)
        st(q) == [player |-> q, entities |-> ents1, particles |-> parts1,
                  frameCount |-> fc, gameStatus |-> "PLAYING", report |-> ""]
        die(q, cause) ==
            IF q.dead THEN st(q)
            ELSE [st(q) EXCEPT !.player.dead = TRUE,
                               !.particles = spawnParticles(parts1, q.pos.x, q.pos.y, draw),
                               !.gameStatus = "DEAD", !.report = cause]
        win(q) == [st(q) EXCEPT !.gameStatus = "WIN", !.report = "WIN"]
    IN  IF fellIntoVoid(p3, lvl) THEN die(p3, "Fell into the void")
        ELSE IF found = "WIN" THEN win(p4)
        ELSE IF found # "" THEN die(p4, found)
        ELSE [st(p4) EXCEPT !.frameCount = fc + 1]

\* ------------------------------------------------------------------------
\* geminiService (src/unnamed/part_000).  A text is a sequence of pieces,
\* each one white-space character " " or a run of other characters.  The
\* ten Chinese sentences of FALLBACK_TAUNTS are written by their index.
\* ------------------------------------------------------------------------
FALLBACK_TAUNTS ==
    << <<"fallback-0">>, <<"fallback-1">>, <<"fallback-2">>, <<"fallback-3">>,
       <<"fallback-4">>, <<"fallback-5">>, <<"fallback-6">>, <<"fallback-7">>,
       <<"fallback-8">>, <<"fallback-9">> >>

\* String.prototype.trim
trim(t) ==
    LET inked == {i \in DOMAIN t : t[i] # " "}
        first == CHOOSE i \in inked : \A j \in inked : i <= j
        last == CHOOSE i \in inked : \A j \in inked : i >= j
    IN  IF inked = {} THEN <<>> ELSE SubSeq(t, first, last)

\* FALLBACK_TAUNTS[Math.floor(Math.random() * FALLBACK_TAUNTS.length)],
\* draw being Math.random() in tenths
fallback(draw) == FALLBACK_TAUNTS[draw + 1]

\* what generateContent does with a request: it throws (or its promise
\* rejects), or it gives a response, which may be null, or an object
\* whose text is missing (NoAnswer) or a text (Answer)
NoAnswer(kind) == [kind |-> kind, textDefined |-> FALSE, text |-> <<>>]
Answer(t) == [kind |-> "object", textDefined |-> TRUE, text |-> t]

\* `response && response.text`: an object whose text is a string other
\* than ""
hasText(outcome) ==
    /\ outcome.kind = "object"
    /\ outcome.textDefined
    /\ outcome.text # <<>>

\* a service that trims and hands on the text of any response object
generateTauntUnchecked(client, outcome, draw) ==
    IF ~client THEN fallback(draw)
    ELSE IF outcome.kind = "object" THEN trim(outcome.text)
    ELSE fallback(draw)

\* generateTaunt: what the promise resolves with.  client is `ai` with
\* API_KEY; outcome is what generateContent does (not called without a
\* client); draw is the Math.random() of the path taken
generateTaunt(client, outcome, draw) ==
    IF ~client THEN fallback(draw)
    ELSE IF outcome.kind = "throws" THEN fallback(draw)
    ELSE IF hasText(outcome) THEN trim(outcome.text)
    ELSE fallback(draw)

\* the outcomes and draws of the model
Outcomes ==
    { NoAnswer("throws"), NoAnswer("null"), NoAnswer("object"), Answer(<<>>),
      Answer(<<" ", "git", " ", "gud", " ">>), Answer(<<" ">>) }
Draws == {0, 9}

\* App.tsx handleDie, after setGameStatus(DEAD): the counter, the
\* placeholder, and the call of generateTaunt.  Without a client the
\* promise is settled already and the await resumes before any other
\* handler runs; with one, the call stays in flight with the outcome the
\* provider will give it
handleDie(cause) ==
    /\ deathCount' = deathCount + 1
    /\ IF ~ai
       THEN \E draw \in Draws :
               /\ taunt' = generateTaunt(FALSE, NoAnswer("throws"), draw)
               /\ loadingTaunt' = FALSE
               /\ UNCHANGED requests
       ELSE \E outcome \in Outcomes, draw \in Draws :
               /\ taunt' = <<"Thinking", " ", "of", " ", "an", " ", "insult...">>
               /\ loadingTaunt' = TRUE
               /\ requests' = Append(requests,
                                 [deathCount |-> deathCount + 1,
                                  cause |-> cause,
                                  outcome |-> outcome, draw |-> draw])
    /\ UNCHANGED << ai, deathLimit >>

\* ------------------------------------------------------------------------
\* Bounds of the model
\* ------------------------------------------------------------------------
\* playing frames of one attempt (frameLimit stops the attempt there)
MaxFrames == 40
\* the same where a trap takes longer to play out (levels 4, 7 and 10)
MaxFramesLong == 60
\* the same for level 10 played from beside the decoy
MaxFramesDevil == 50
\* the same for level 8, whose ceiling needs some 480 frames to come down
MaxFramesPress == 500
\* the same for level 1 walked from its start to the pit
MaxFramesWalk == 70
\* key events (a press or a release that changes keysRef) in one behaviour
MaxKeyEvents == 1
\* deaths of one behaviour where App's counter and taunt are followed
MaxDeaths == 2

\* the key codes pressed in the model, of those update() reads
Codes == {"ArrowRight", "ArrowLeft", "Space"}

\* level 3's (Math.random() - 0.5) * 8, drawn in the levels that read it
Jitters(lvl) == IF lvl.id = 3 THEN {-4000, 3000} ELSE {0}

\* ------------------------------------------------------------------------
\* Actions
\* ------------------------------------------------------------------------

\* an update that never returns early
stopsGameLogicNever(status) == FALSE

\* GameCanvas.tsx update: `if (status !== GameStatus.PLAYING) return`, on
\* the status the update was created with
stopsGameLogic(status) == status # "PLAYING"

\* GameCanvas.tsx update(): one call from the animation-frame tick.  A
\* stale loop calls the update that closed over status PLAYING, on the refs
\* as the reporting frame left them; the render's effects run after it.
update ==
    LET aged == ageParticles(particles)
    IN  IF stopsGameLogic(IF loop = "stale" THEN "PLAYING" ELSE gameStatus)
        THEN /\ particles' = aged
             /\ report' = ""
             /\ UNCHANGED << customLevels, currentLevelIndex, gameStatus, player,
                             entities, frameCount, keys, keyEvents,
                             frameLimit >>
             /\ UNCHANGED << tauntVars, editorVars, loop >>
        ELSE /\ loop = "stale" \/ frameCount < frameLimit
             /\ \E jitterX \in Jitters(currentLevel), draw \in ParticleDraws :
                  \E st \in {IF loop = "prompt"
                              THEN playingFrame(currentLevel, player, entities,
                                                aged, frameCount, keys, jitterX,
                                                draw)
                              ELSE frameOnRefs(currentLevel, player, entities,
                                               aged, frameCount, keys, jitterX,
                                               draw)} :
                  \E status \in {IF loop = "stale" /\ st.report = ""
                                  THEN gameStatus ELSE st.gameStatus} :
                  \E eff \in {IF loop = "stale"
                               THEN initializeLevel(currentLevel, status,
                                                    st.player, st.particles,
                                                    st.frameCount)
                               ELSE [player |-> st.player,
                                     entities |-> st.entities,
                                     particles |-> st.particles,
                                     frameCount |-> st.frameCount]} :
                      /\ player' = eff.player
                      /\ entities' = eff.entities
                      /\ particles' = eff.particles
                      /\ frameCount' = eff.frameCount
                      /\ gameStatus' = status
                      /\ report' = st.report
                      /\ loop' = IF loop = "prompt" THEN "prompt"
                                 ELSE IF loop = "late" /\ st.report # ""
                                 THEN "stale" ELSE "late"
                      /\ IF loop = "prompt" /\ status = "DEAD" /\ deathLimit > 0
                         THEN handleDie(st.report) /\ UNCHANGED editorVars
                         ELSE UNCHANGED << tauntVars, editorVars >>
             /\ UNCHANGED << customLevels, currentLevelIndex, keys, keyEvents,
                             frameLimit >>

\* GameCanvas.tsx handleKeyDown (and the touch buttons' onTouchStart)
handleKeyDown(code) ==
    /\ code \notin keys
    /\ keyEvents < MaxKeyEvents
    /\ keys' = keys \cup {code}
    /\ keyEvents' = keyEvents + 1
    /\ report' = ""
    /\ UNCHANGED << customLevels, currentLevelIndex, gameStatus, player,
                    entities, particles, frameCount, frameLimit >>
    /\ UNCHANGED << tauntVars, loop, editorVars >>

\* GameCanvas.tsx handleKeyUp (and the touch buttons' onTouchEnd)
handleKeyUp(code) ==
    /\ code \in keys
    /\ keyEvents < MaxKeyEvents
    /\ keys' = keys \ {code}
    /\ keyEvents' = keyEvents + 1
    /\ report' = ""
    /\ UNCHANGED << customLevels, currentLevelIndex, gameStatus, player,
                    entities, particles, frameCount, frameLimit >>
    /\ UNCHANGED << tauntVars, loop, editorVars >>

\* App.tsx retry (the death overlay's TRY AGAIN): setGameStatus(PLAYING),
\* and the Initialize Level effect the status change runs
retry ==
    /\ gameStatus = "DEAD"
    /\ loop # "stale"
    /\ deathLimit = 0 \/ deathCount < deathLimit
    /\ LET eff == initializeLevel(currentLevel, "PLAYING", player, particles,
                                  frameCount)
       IN  /\ player' = eff.player
           /\ entities' = eff.entities
           /\ particles' = eff.particles
           /\ frameCount' = eff.frameCount
    /\ gameStatus' = "PLAYING"
    /\ report' = ""
    /\ UNCHANGED << customLevels, currentLevelIndex, keys, keyEvents, frameLimit >>
    /\ UNCHANGED << tauntVars, loop, editorVars >>

\* the status change to `status` on level index `index`, and the
\* Initialize Level effect it runs
enter(status, index) ==
    /\ currentLevelIndex' = index
    /\ gameStatus' = status
    /\ LET lvl == IF index + 1 \in DOMAIN allLevels
                  THEN allLevels[index + 1] ELSE LEVELS[1]
           eff == initializeLevel(lvl, status, player, particles, frameCount)
       IN  /\ player' = eff.player
           /\ entities' = eff.entities
           /\ particles' = eff.particles
           /\ frameCount' = eff.frameCount
    /\ report' = ""
    /\ UNCHANGED << customLevels, keys, keyEvents, frameLimit >>

\* App.tsx goToMenu (the header's MENU button, and the overlays')
goToMenu ==
    /\ gameStatus # "MENU"
    /\ enter("MENU", currentLevelIndex)
    /\ editingLevel' = <<>>
    /\ UNCHANGED << tauntVars, loop, grid, activeTool, isDrawing, error >>

\* App.tsx startGame (the menu's START GAME)
startGame ==
    /\ gameStatus = "MENU"
    /\ enter("PLAYING", currentLevelIndex)
    /\ UNCHANGED << tauntVars, loop, editorVars >>

\* the level indexes picked from the menu's lists in the model
MenuChoices == {10, 11}

\* App.tsx selectLevel (a level of the menu's lists)
selectLevel(index) ==
    /\ gameStatus = "MENU"
    /\ index + 1 \in DOMAIN allLevels
    /\ enter("PLAYING", index)
    /\ UNCHANGED << tauntVars, loop, editorVars >>

\* App.tsx nextLevel (the win overlay's NEXT LEVEL)
nextLevel ==
    /\ gameStatus = "WIN"
    /\ IF currentLevelIndex < Len(allLevels) - 1
       THEN enter("PLAYING", currentLevelIndex + 1) /\ UNCHANGED << tauntVars, loop, editorVars >>
       ELSE /\ enter("MENU", 0)
            /\ deathCount' = 0
            /\ UNCHANGED << taunt, loadingTaunt, requests, ai, deathLimit >>
            /\ UNCHANGED << editorVars, loop >>

Next ==
    \/ update
    \/ \E code \in Codes : handleKeyDown(code)
    \/ \E code \in Codes : handleKeyUp(code)
    \/ retry

\* the i-th call in flight settles: it leaves the calls in flight
settles(i) ==
    /\ i \in DOMAIN requests
    /\ requests' = [k \in 1..(Len(requests) - 1) |->
                        IF k < i THEN requests[k] ELSE requests[k + 1]]

\* App.tsx handleDie, from `await generateTaunt(...)` on: the promise of
\* the i-th call in flight settles, in any order among the calls
resolveTaunt(i) ==
    /\ settles(i)
    /\ taunt' = generateTaunt(TRUE, requests[i].outcome, requests[i].draw)
    /\ loadingTaunt' = FALSE
    /\ report' = ""
    /\ UNCHANGED << customLevels, currentLevelIndex, gameStatus, player,
                    entities, particles, frameCount, keys, keyEvents,
                    frameLimit, deathCount, ai, deathLimit >>
    /\ UNCHANGED << editorVars, loop >>

\* the cells painted in the model: one above the default floor, one of it
PaintCells == { <<2, 13>>, <<3, 14>> }

\* LevelEditor.tsx: a tool button's onClick
setActiveTool(tool) ==
    /\ gameStatus = "EDITOR"
    /\ activeTool' = tool
    /\ UNCHANGED << customLevels, currentLevelIndex, gameStatus, player,
                    entities, particles, frameCount, keys, report, keyEvents,
                    frameLimit, tauntVars, loop, grid, isDrawing, error,
                    editingLevel >>

\* LevelEditor.tsx handlePointerDown (a cell's onMouseDown)
handlePointerDown(c, r) ==
    /\ gameStatus = "EDITOR"
    /\ isDrawing' = TRUE
    /\ grid' = paint(grid, activeTool, c, r)
    /\ UNCHANGED << customLevels, currentLevelIndex, gameStatus, player,
                    entities, particles, frameCount, keys, report, keyEvents,
                    frameLimit, tauntVars, loop, activeTool, error, editingLevel >>

\* LevelEditor.tsx handlePointerEnter (a cell's onMouseEnter)
handlePointerEnter(c, r) ==
    /\ gameStatus = "EDITOR"
    /\ grid' = IF isDrawing THEN paint(grid, activeTool, c, r) ELSE grid
    /\ UNCHANGED << customLevels, currentLevelIndex, gameStatus, player,
                    entities, particles, frameCount, keys, report, keyEvents,
                    frameLimit, tauntVars, loop, activeTool, isDrawing, error,
                    editingLevel >>

\* LevelEditor.tsx: the grid's onMouseUp and onMouseLeave
handleMouseUp ==
    /\ gameStatus = "EDITOR"
    /\ isDrawing' = FALSE
    /\ UNCHANGED << customLevels, currentLevelIndex, gameStatus, player,
                    entities, particles, frameCount, keys, report, keyEvents,
                    frameLimit, tauntVars, loop, grid, activeTool, error,
                    editingLevel >>

\* LevelEditor.tsx clearGrid, confirmed
clearGrid ==
    /\ gameStatus = "EDITOR"
    /\ grid' = <<>>
    /\ UNCHANGED << customLevels, currentLevelIndex, gameStatus, player,
                    entities, particles, frameCount, keys, report, keyEvents,
                    frameLimit, tauntVars, loop, activeTool, isDrawing, error,
                    editingLevel >>

\* App.tsx saveCustomLevel: the level replaces the first custom level of
\* its id (findIndex) or goes last
saveCustomLevel(customs, newLevel) ==
    LET same == {i \in DOMAIN customs : customs[i].id = newLevel.id}
        existingIndex == CHOOSE i \in same : \A j \in same : i <= j
    IN  IF same # {}
        THEN [customs EXCEPT ![existingIndex] = newLevel]
        ELSE Append(customs, newLevel)

\* LevelEditor.tsx: the SAVE button's onClick (the level's id is
\* initialData's, or nextId = 11 + customLevels.length): handleSave, and
\* when it calls onSave, App's saveCustomLevel, the menu that replaces the
\* editor and the Initialize Level effect of the canvas that comes with it
clickSave ==
    /\ gameStatus = "EDITOR"
    /\ UNCHANGED << currentLevelIndex, keys, report, keyEvents, frameLimit,
                    tauntVars, loop >>
    /\ LET res == handleSave(grid, IF editingLevel # <<>> THEN editingLevel[1].id
                                   ELSE 11 + Len(customLevels))
       IN  IF res.saved
           THEN /\ customLevels' = saveCustomLevel(customLevels, res.level)
                /\ gameStatus' = "MENU"
                /\ LET eff == initializeLevel(currentLevel', "MENU", player,
                                              particles, frameCount)
                   IN  /\ player' = eff.player
                       /\ entities' = eff.entities
                       /\ particles' = eff.particles
                       /\ frameCount' = eff.frameCount
                /\ grid' = <<>>
                /\ activeTool' = "WALL"
                /\ isDrawing' = FALSE
                /\ error' = "null"
                /\ editingLevel' = <<>>
           ELSE /\ error' = res.error
                /\ UNCHANGED << customLevels, gameStatus, player, entities,
                                particles, frameCount, grid, activeTool,
                                isDrawing, editingLevel >>

\* custom levels in the list when the menu's CREATE NEW LEVEL is clicked
MaxCustomLevels == 2

\* App.tsx openEditor (the menu's CREATE NEW LEVEL): the editor replaces
\* the canvas, with no initialData; its first effect fills the floor
openEditor ==
    /\ gameStatus = "MENU"
    /\ Len(customLevels) < MaxCustomLevels
    /\ enter("EDITOR", currentLevelIndex)
    /\ editingLevel' = <<>>
    /\ grid' = defaultFloor
    /\ activeTool' = "WALL"
    /\ isDrawing' = FALSE
    /\ error' = "null"
    /\ UNCHANGED << tauntVars, loop >>

\* App.tsx editLevel (the pencil of the i-th custom level of the menu):
\* the editor with that level as initialData
editLevel(i) ==
    /\ gameStatus = "MENU"
    /\ i \in DOMAIN customLevels
    /\ enter("EDITOR", currentLevelIndex)
    /\ editingLevel' = <<customLevels[i]>>
    /\ grid' = gridOf(customLevels[i])
    /\ activeTool' = "WALL"
    /\ isDrawing' = FALSE
    /\ error' = "null"
    /\ UNCHANGED << tauntVars, loop >>

\* the editor on the screen
NextEditor ==
    \/ \E tool \in Tools : setActiveTool(tool)
    \/ \E cell \in PaintCells : handlePointerDown(cell[1], cell[2])
    \/ \E cell \in PaintCells : handlePointerEnter(cell[1], cell[2])
    \/ handleMouseUp
    \/ clearGrid
    \/ clickSave

\* the canvas with the taunts of App
NextTaunt ==
    \/ Next
    \/ \E i \in 1..MaxDeaths : resolveTaunt(i)

\* the canvas with the buttons of App around it
NextApp ==
    \/ Next
    \/ goToMenu
    \/ startGame
    \/ \E index \in MenuChoices : selectLevel(index)
    \/ nextLevel

\* ------------------------------------------------------------------------
\* Initial states: the game right after App.selectLevel(index) and the
\* Initialize Level effect, with any of the modelled keys already held
\* ------------------------------------------------------------------------
\* App's first render (no death, no taunt, nothing in flight) in a build
\* with or without API_KEY, and the deaths of one behaviour
appMounted(clients, limit) ==
    /\ deathCount = 0
    /\ taunt = <<>>
    /\ loadingTaunt = FALSE
    /\ requests = <<>>
    /\ ai \in clients
    /\ deathLimit = limit
    /\ loop = "prompt"

\* LevelEditor's state after its first effect, for the initialData
\* `editing` (while the editor is not on the screen: the empty Map of
\* useState)
editorMounted(onScreen, editing) ==
    /\ editingLevel = editing
    /\ grid = IF ~onScreen THEN <<>>
              ELSE IF editing = <<>> THEN defaultFloor
              ELSE gridOf(editing[1])
    /\ activeTool = "WALL"
    /\ isDrawing = FALSE
    /\ error = "null"

levelSelected(customs, index, limit) ==
    /\ customLevels = customs
    /\ currentLevelIndex = index
    /\ gameStatus = "PLAYING"
    /\ player = freshPlayer(currentLevel)
    /\ entities = currentLevel.entities
    /\ particles = <<>>
    /\ frameCount = 0
    /\ keys \in SUBSET Codes
    /\ report = ""
    /\ keyEvents = 0
    /\ frameLimit = limit
    /\ appMounted({FALSE}, 0)
    /\ editorMounted(FALSE, <<>>)

\* App.tsx importLevels: the parsed file replaces the custom levels when it
\* is an array (a sequence here) whose levels each have a numeric id and
\* entities; nothing else of a level is looked at
importLevels(customs, data) ==
    IF \A i \in DOMAIN data :
          data[i].id \in Int /\ "entities" \in DOMAIN data[i]
    THEN data ELSE customs

\* a level file's level: lvl with its start moved to tile (c, r)
startingAt(lvl, c, r) ==
    [lvl EXCEPT !.startPos = [x |-> c * TILE_SIZE, y |-> r * TILE_SIZE]]

\* a level file's level: lvl with another height
withHeight(lvl, h) == [lvl EXCEPT !.height = h]

\* a level file's level: lvl with its spikes neither visible nor collidable
withSpikesHidden(lvl) ==
    [lvl EXCEPT !.entities =
        [i \in DOMAIN lvl.entities |->
            IF lvl.entities[i].type = "SPIKE"
            THEN WithFlags(lvl.entities[i], FALSE, FALSE)
            ELSE lvl.entities[i]]]

\* a level file's level: lvl with its spikes of width w and height h
withSpikeSize(lvl, w, h) ==
    [lvl EXCEPT !.entities =
        [i \in DOMAIN lvl.entities |->
            IF lvl.entities[i].type = "SPIKE"
            THEN [lvl.entities[i] EXCEPT !.w = w, !.h = h]
            ELSE lvl.entities[i]]]

\* a level file's level: lvl with its trap walls marked as proximity
\* falling spikes too
withFallingTraps(lvl) ==
    [lvl EXCEPT !.entities =
        [i \in DOMAIN lvl.entities |->
            IF lvl.entities[i].properties.trap
            THEN [lvl.entities[i] EXCEPT !.properties.fallingStrategy = "proximity"]
            ELSE lvl.entities[i]]]

\* the editor-built level, played as the first custom level
Init == levelSelected(<<workshopLevel>>, 10, MaxFrames)
Spec == Init /\ [][Next]_vars

\* the crumbling platforms: the editor-built level, level 4, and level 4
\* from a level file that starts the player above 'trap-plat'
InitTraps ==
    \/ levelSelected(<<workshopLevel>>, 10, MaxFramesLong)
    \/ levelSelected(<<>>, 3, MaxFramesLong)
    \/ levelSelected(importLevels(<<>>, <<startingAt(level4, 8, 6)>>), 10,
                     MaxFramesLong)
SpecTraps == InitTraps /\ [][Next]_vars

\* the campaign's level 7 and level 8
InitL7 == levelSelected(<<>>, 6, MaxFramesLong)
SpecL7 == InitL7 /\ [][Next]_vars

InitL8 == levelSelected(<<>>, 7, MaxFramesPress)
SpecL8 == InitL8 /\ [][Next]_vars

\* level 10: the campaign's, and level 10 from a level file that starts the
\* player on 'plat', left of the decoy
InitL10 ==
    \/ levelSelected(<<>>, 9, MaxFramesDevil)
    \/ levelSelected(importLevels(<<>>, <<startingAt(level10, 17, 9)>>), 10,
                     MaxFramesDevil)
SpecL10 == InitL10 /\ [][Next]_vars

\* level 10: the campaign's, and level 10 from a level file that starts the
\* player on the stair 's4', right of the hidden real goal
InitL10Goal ==
    \/ levelSelected(<<>>, 9, MaxFramesLong)
    \/ levelSelected(importLevels(<<>>, <<startingAt(level10, 6, 3)>>), 10,
                     MaxFramesLong)
SpecL10Goal == InitL10Goal /\ [][Next]_vars

\* the campaign's level 1
InitL1 == levelSelected(<<>>, 0, MaxFramesWalk)
SpecL1 == InitL1 /\ [][Next]_vars

\* the hazards and goals of step 5: the second editor-built level; the same
\* from a level file with its spikes hidden; the same from a level file
\* with height 310, which puts the goal and the spikes below the line of
\* the void; and level 10 started beside its decoy
InitHazards ==
    \/ levelSelected(<<gauntletLevel>>, 10, MaxFrames)
    \/ levelSelected(importLevels(<<>>, <<withSpikesHidden(gauntletLevel)>>),
                     10, MaxFrames)
    \/ levelSelected(importLevels(<<>>, <<withHeight(gauntletLevel, PX(310))>>),
                     10, MaxFrames)
    \/ levelSelected(importLevels(<<>>, <<startingAt(level10, 17, 9)>>), 10,
                     MaxFrames)
SpecHazards == InitHazards /\ [][Next]_vars

\* the two editor-built levels as the custom levels, with App's buttons
\* (the editor numbers a new level 11 + customLevels.length)
InitApp ==
    levelSelected(<<workshopLevel, [gauntletLevel EXCEPT !.id = 12]>>, 10,
                  MaxFrames)
SpecApp == InitApp /\ [][NextApp]_vars

\* rectangles of any size: the second editor-built level as the editor
\* saves it, and from level files whose spikes have no width, or no height
InitRects ==
    \/ levelSelected(<<gauntletLevel>>, 10, MaxFrames)
    \/ levelSelected(importLevels(<<>>,
                        <<withSpikeSize(gauntletLevel, 0, TILE_SIZE)>>),
                     10, MaxFrames)
    \/ levelSelected(importLevels(<<>>,
                        <<withSpikeSize(gauntletLevel, TILE_SIZE, 0)>>),
                     10, MaxFrames)
SpecRects == InitRects /\ [][Next]_vars

\* level 2: the campaign's, and level 2 from a level file that starts the
\* player at the line that sets the goal off
InitL2 ==
    \/ levelSelected(<<>>, 1, MaxFramesWalk)
    \/ levelSelected(importLevels(<<>>, <<startingAt(level2, 8, 8)>>), 10,
                     MaxFramesWalk)
SpecL2 == InitL2 /\ [][Next]_vars

\* the campaign's level 3
InitL3 == levelSelected(<<>>, 2, MaxFramesWalk)
SpecL3 == InitL3 /\ [][Next]_vars

\* the campaign's level 9
InitL9 == levelSelected(<<>>, 8, MaxFrames)
SpecL9 == InitL9 /\ [][Next]_vars

\* an entity of two mechanics: the editor-built level from a level file
\* whose trap wall is a proximity falling spike too
InitMixed ==
    levelSelected(importLevels(<<>>, <<withFallingTraps(workshopLevel)>>), 10,
                  MaxFrames)
SpecMixed == InitMixed /\ [][Next]_vars

\* the render that comes with the status change, or after the next tick:
\* the second editor-built level
InitLate ==
    /\ customLevels = <<gauntletLevel>>
    /\ currentLevelIndex = 10
    /\ gameStatus = "PLAYING"
    /\ player = freshPlayer(currentLevel)
    /\ entities = currentLevel.entities
    /\ particles = <<>>
    /\ frameCount = 0
    /\ keys \in SUBSET Codes
    /\ report = ""
    /\ keyEvents = 0
    /\ frameLimit = MaxFrames
    /\ deathCount = 0 /\ taunt = <<>> /\ loadingTaunt = FALSE
    /\ requests = <<>> /\ ai = FALSE /\ deathLimit = 0
    /\ editorMounted(FALSE, <<>>)
    /\ loop \in {"prompt", "late"}
SpecLate == InitLate /\ [][Next]_vars

\* the falling spike: the third editor-built level
InitAmbush == levelSelected(<<ambushLevel>>, 10, MaxFrames)
SpecAmbush == InitAmbush /\ [][Next]_vars

\* the deaths and their taunts: the second editor-built level from a level
\* file that starts the player one tile above its first spike, with and
\* without a client for the taunts
InitTaunt ==
    /\ customLevels = importLevels(<<>>, <<startingAt(gauntletLevel, 3, 10)>>)
    /\ currentLevelIndex = 10
    /\ gameStatus = "PLAYING"
    /\ player = freshPlayer(currentLevel)
    /\ entities = currentLevel.entities
    /\ particles = <<>>
    /\ frameCount = 0
    /\ keys \in {{}, {"ArrowRight"}}
    /\ report = ""
    /\ keyEvents = 0
    /\ frameLimit = MaxFrames
    /\ appMounted(BOOLEAN, MaxDeaths)
    /\ editorMounted(FALSE, <<>>)
SpecTaunt == InitTaunt /\ [][NextTaunt]_vars

\* the editor opened from the menu: for a new level (App.openEditor) with
\* no custom level yet, or on the first editor-built level (App.editLevel)
InitEditor ==
    /\ \/ customLevels = <<>> /\ editorMounted(TRUE, <<>>)
       \/ customLevels = <<workshopLevel>>
            /\ editorMounted(TRUE, <<workshopLevel>>)
    /\ currentLevelIndex = 0
    /\ gameStatus = "EDITOR"
    /\ player = freshPlayer(currentLevel)
    /\ entities = currentLevel.entities
    /\ particles = <<>>
    /\ frameCount = 0
    /\ keys = {}
    /\ report = ""
    /\ keyEvents = 0
    /\ frameLimit = 0
    /\ appMounted({FALSE}, 0)
SpecEditor == InitEditor /\ [][NextEditor]_vars

\* the level files picked in the model: the first editor-built level as
\* exported, the same numbered 12 and 3, and a file of two levels
\* numbered 11
LevelFiles ==
    { <<workshopLevel>>,
      <<[workshopLevel EXCEPT !.id = 12]>>,
      <<[workshopLevel EXCEPT !.id = 3]>>,
      <<workshopLevel, gauntletLevel>> }

\* App.tsx importLevels, confirmed, on the menu of a game on a built-in
\* level (the canvas's level stays the same object)
importFile(data) ==
    /\ gameStatus = "MENU"
    /\ currentLevelIndex < Len(LEVELS)
    /\ customLevels' = importLevels(customLevels, data)
    /\ UNCHANGED << currentLevelIndex, gameStatus, player, entities, particles,
                    frameCount, keys, report, keyEvents, frameLimit >>
    /\ UNCHANGED << tauntVars, loop, editorVars >>

\* the menu's level files and the editor
NextImport ==
    \/ \E data \in LevelFiles : importFile(data)
    \/ openEditor
    \/ \E i \in 1..MaxCustomLevels : editLevel(i)
    \/ \E tool \in {"PLAYER_START", "GOAL"} : setActiveTool(tool)
    \/ \E cell \in PaintCells : handlePointerDown(cell[1], cell[2])
    \/ clickSave

\* the menu of App's first render, with no custom level stored
InitImport ==
    /\ customLevels = <<>>
    /\ currentLevelIndex = 0
    /\ gameStatus = "MENU"
    /\ player = freshPlayer(currentLevel)
    /\ entities = currentLevel.entities
    /\ particles = <<>>
    /\ frameCount = 0
    /\ keys = {}
    /\ report = ""
    /\ keyEvents = 0
    /\ frameLimit = 0
    /\ appMounted({FALSE}, 0)
    /\ editorMounted(FALSE, <<>>)
SpecImport == InitImport /\ [][NextImport]_vars

\* ------------------------------------------------------------------------
\* Properties
\* ------------------------------------------------------------------------

\* the frame just taken was a playing frame that ran to its end
\* (frameCountRef.current++ is update's last statement)
playedThrough == frameCount' = frameCount + 1

\* the entity ent's rectangle overlaps the player's
overlapsPlayer(ent) == checkCollision(playerRectOf(player), ent)

\* C1: on every level, after any playing frames, the horizontal pass leaves
\* the player's x within 0 .. level.width - PLAYER_SIZE, whatever walls the
\* player overlaps (the later steps of the frame never write x)
C1_XWithinLevel ==
    /\ player.pos.x >= 0
    /\ player.pos.x <= currentLevel.width - PLAYER_SIZE

\* the walls the passes look at: the entities without the WALLs whose
\* collidable flag is false
isSolid(ent) == ~(ent.type = "WALL" /\ ~ent.collidable)
withoutGhostWalls(ents) == SelectSeq(ents, isSolid)

\* C2: a WALL whose collidable flag is false changes nothing in either
\* pass: a frame leaves the player where the two passes would leave them
\* with those walls taken out of the entity list
C2_NonCollidableWallsIgnored ==
    [][ playedThrough =>
          player' =
            LET solid == withoutGhostWalls(entities')
                p1 == applyPhysics(player, keys)
                p2 == horizontalPass(p1, solid, currentLevel)
            IN  verticalPass(moveVertical(p2), solid) ]_vars

\* the player stands inside a WALL that is not collidable, after a frame
C2_InsideGhostWall ==
    /\ gameStatus = "PLAYING"
    /\ frameCount > 0
    /\ \E i \in DOMAIN entities :
          /\ entities[i].type = "WALL"
          /\ ~entities[i].collidable
          /\ overlapsPlayer(entities[i])

\* the player's feet rest on the top of ent, within its width
standsOn(ent) ==
    /\ ent.type = "WALL"
    /\ ent.collidable
    /\ player.pos.y + PLAYER_SIZE = ent.y
    /\ player.pos.x < ent.x + ent.w
    /\ player.pos.x + PLAYER_SIZE > ent.x

\* C3: while playing, isGrounded is true only if the vertical pass has just
\* snapped the falling player onto the top of a collidable WALL: the player
\* is at rest vertically on such a wall; a player in the air is not grounded
C3_GroundedOnlyOnFloor ==
    (gameStatus = "PLAYING" /\ player.isGrounded) =>
        /\ player.vel.y = 0
        /\ \E i \in DOMAIN entities : standsOn(entities[i])

\* the player has left the tile it landed on and falls, not grounded
C3_FallingAfterLanding ==
    /\ gameStatus = "PLAYING"
    /\ ~player.isGrounded
    /\ player.vel.y > 0
    /\ player.pos.y > PX(330)

\* a crumbling platform: an entity with properties.trap, or level 4's
\* 'trap-plat'
crumbling(ent) ==
    ent.properties.trap \/ (currentLevel.id = 4 /\ ent.id = "trap-plat")

gone(ent) == ~ent.visible /\ ~ent.collidable

\* C4: a crumbling platform is visible and collidable until its countdown
\* exceeds 20 (so through the 20 frames of countdown after its trigger),
\* invisible and non-collidable once the countdown exceeds 20, and once
\* gone it stays gone while the attempt goes on
C4_CrumblesAfterTwenty ==
    /\ [](\A i \in DOMAIN entities :
            crumbling(entities[i]) =>
               IF Exceeds(entities[i].properties.timer, 20)
               THEN gone(entities[i])
               ELSE entities[i].visible /\ entities[i].collidable)
    /\ [][ \A i \in DOMAIN entities :
             (crumbling(entities[i]) /\ gone(entities[i]) /\ playedThrough)
                => gone(entities'[i]) ]_vars

\* level 4's 'trap-plat' has crumbled under the player, who plays on
C4_TrapPlatGone ==
    /\ currentLevel.id = 4
    /\ gameStatus = "PLAYING"
    /\ \E i \in DOMAIN entities :
          /\ entities[i].id = "trap-plat"
          /\ gone(entities[i])
          /\ Exceeds(entities[i].properties.timer, 21)

\* C5: once a crumbling platform's countdown has started it advances by
\* one on every playing frame, whether or not the player still touches the
\* platform, and the platform is gone when the countdown passes 20
C5_CountdownNeverPauses ==
    [][ \A i \in DOMAIN entities :
          (crumbling(entities[i]) /\ entities[i].properties.triggered
             /\ playedThrough)
          => /\ entities[i].properties.timer # <<>>
             /\ entities'[i].properties.timer
                  = <<entities[i].properties.timer[1] + 1>>
             /\ (entities'[i].properties.timer[1] > 20 => gone(entities'[i]))
      ]_vars

\* a trap wall counts down, 2 or more, while the player is off it
C5_CountingWithoutContact ==
    /\ gameStatus = "PLAYING"
    /\ \E i \in DOMAIN entities :
          /\ entities[i].properties.trap
          /\ entities[i].properties.triggered
          /\ Exceeds(entities[i].properties.timer, 1)
          /\ ~Exceeds(entities[i].properties.timer, 20)
          /\ ~checkCollision(playerRectOf(player),
                [x |-> entities[i].x, y |-> entities[i].y - PX(5),
                 w |-> entities[i].w, h |-> entities[i].h])

\* level 7's pillar, and the floor line it falls to
pillarIndex == findIndex(entities, "falling-pillar")
pillarFloor == 12 * TILE_SIZE
lowerEdge(ent) == ent.y + ent.h

\* C10: in level 7 the triggered pillar's vertical velocity never
\* decreases from a frame to the next until its lower edge reaches the
\* floor line y = 12 * TILE_SIZE; its lower edge is at or above that line
\* at the end of every frame; once landed its position no longer changes
C10_PillarFallsToTheFloor ==
    /\ [](pillarIndex # 0 => lowerEdge(entities[pillarIndex]) <= pillarFloor)
    /\ [][ (pillarIndex # 0 /\ playedThrough) =>
             LET before == entities[pillarIndex]
                 after == entities'[pillarIndex]
             IN  /\ (after.properties.triggered
                       /\ lowerEdge(after) < pillarFloor)
                      => after.properties.vy >= before.properties.vy
                 /\ lowerEdge(before) = pillarFloor
                      => (after.x = before.x /\ after.y = before.y) ]_vars

\* the pillar has landed and the player plays on
C10_PillarLanded ==
    /\ currentLevel.id = 7
    /\ gameStatus = "PLAYING"
    /\ pillarIndex # 0
    /\ entities[pillarIndex].properties.triggered
    /\ lowerEdge(entities[pillarIndex]) = pillarFloor

\* a step that is a playing frame (a key event changes keys, a retry
\* starts from DEAD)
frameTaken == gameStatus = "PLAYING" /\ keys' = keys

\* the entities and the player that step 5 of the coming frame checks:
\* after the mechanics and the two passes (jitterX is read in level 3 only)
checkedEntities ==
    updateLevelMechanics(currentLevel.id, entities,
                         applyPhysics(player, keys), frameCount, 0)
checkedPlayer ==
    LET p1 == applyPhysics(player, keys)
        p2 == horizontalPass(p1, checkedEntities, currentLevel)
    IN  verticalPass(moveVertical(p2), checkedEntities)

\* level 10's entities, by id
decoyIndex == findIndex(entities, "fake-goal")
realGoalIndex == findIndex(entities, "real-goal")
isStair(ent) == ent.id \in {"s1", "s2", "s3", "s4"}
decoyPresent == entities[decoyIndex].visible

C7_RevealFiresOnce ==
    [][ (currentLevel.id = 10 /\ playedThrough /\ ~decoyPresent) =>
            /\ entities' = entities
            /\ particles' = ageParticles(particles) ]_vars

\* the decoy is removed and the player is still inside its rectangle
C7_StillInsideTheDecoy ==
    /\ currentLevel.id = 10
    /\ gameStatus = "PLAYING"
    /\ ~decoyPresent
    /\ overlapsPlayer(entities[decoyIndex])
    /\ Len(particles) = BURST_SIZE

\* the coming frame's step 5 finds the player touching the decoy,
\* which the frame's mechanic has left in place
touchesDecoy ==
    /\ currentLevel.id = 10
    /\ checkedEntities[decoyIndex].visible
    /\ checkCollision(playerRectOf(checkedPlayer), checkedEntities[decoyIndex])

C9_NoWinBeforeReveal ==
    [][ (frameTaken /\ currentLevel.id = 10
           /\ checkedEntities[decoyIndex].visible) => report' # "WIN" ]_vars

\* the right direction alone is held, and has been since the level began
walksRight == keys = {"ArrowRight"} /\ keyEvents = 0

pitSpikesIndex == findIndex(entities, "pit-spikes")

\* C11: in level 1, from the start position with only the right direction
\* held on every frame, no frame reports a win or a death of another cause
\* than "Spiked", the death is on the pit spike strip, and the run ends
\* with that death: 58 frames are played through and the 59th reports it
C11_WalkingRightIsSpiked ==
    /\ []((currentLevel.id = 1 /\ walksRight /\ gameStatus = "PLAYING")
            => frameCount < 59)
    /\ [][ (currentLevel.id = 1 /\ walksRight /\ frameTaken) =>
              /\ report' \in {"", "Spiked"}
              /\ report' = "Spiked" =>
                    checkCollision(spikePlayerHitbox(player'),
                                   entities'[pitSpikesIndex]) ]_vars

\* the walk has ended on the pit spike strip, right of the left floor
C11_SpikedInThePit ==
    /\ currentLevel.id = 1
    /\ walksRight
    /\ gameStatus = "DEAD"
    /\ report = "Spiked"
    /\ player.pos.x > 8 * TILE_SIZE
    /\ player.pos.y > 10 * TILE_SIZE

\* the player of the coming frame after step 3 and the vertical move of
\* step 4, where the frame looks for the void
fallenPlayer ==
    moveVertical(horizontalPass(applyPhysics(player, keys), checkedEntities,
                                currentLevel))

\* C12: a playing frame whose vertical move leaves player.pos.y above
\* level.height + 100 reports a death of cause "Fell into the void",
\* whatever x is; it is decided before the vertical loop and the spike and
\* goal checks, so the player stays where the move left it and the frame
\* reports no other cause and no win
C12_VoidDeathComesFirst ==
    [][ (frameTaken /\ fallenPlayer.pos.y > currentLevel.height + PX(100)) =>
            /\ report' = "Fell into the void"
            /\ gameStatus' = "DEAD"
            /\ player'.pos = fallenPlayer.pos ]_vars

\* the player fell into the void inside the rectangle of a goal
C12_VoidInsideTheGoal ==
    /\ gameStatus = "DEAD"
    /\ report = "Fell into the void"
    /\ player.pos.y > currentLevel.height + PX(100)
    /\ \E i \in DOMAIN entities :
          /\ entities[i].type = "GOAL"
          /\ ~entities[i].properties.fake
          /\ overlapsPlayer(entities[i])

\* the coming step is a playing frame that gets to step 5
reachesStep5 ==
    frameTaken /\ ~(fallenPlayer.pos.y > currentLevel.height + PX(100))

\* step 5's overlap tests: a SPIKE against the shrunk hitbox, a GOAL
\* against the player's rectangle
matches(p, ent) ==
    \/ ent.type = "SPIKE" /\ checkCollision(spikePlayerHitbox(p), ent)
    \/ ent.type = "GOAL" /\ checkCollision(playerRectOf(p), ent)

\* the goal the check passes over: id 'fake-goal', not marked as a decoy
passedOver(ent) ==
    ent.type = "GOAL" /\ ~ent.properties.fake /\ ent.id = "fake-goal"

\* the first entity of the coming step 5 that matches its test, 0 if none
firstMatched ==
    IF \E i \in DOMAIN checkedEntities :
          matches(checkedPlayer, checkedEntities[i])
    THEN CHOOSE i \in DOMAIN checkedEntities :
            /\ matches(checkedPlayer, checkedEntities[i])
            /\ \A j \in 1..(i - 1) :
                  ~matches(checkedPlayer, checkedEntities[j])
    ELSE 0

\* the same, not counting the goals the check passes over
firstDeciding ==
    IF \E i \in DOMAIN checkedEntities :
          /\ matches(checkedPlayer, checkedEntities[i])
          /\ ~passedOver(checkedEntities[i])
    THEN CHOOSE i \in DOMAIN checkedEntities :
            /\ matches(checkedPlayer, checkedEntities[i])
            /\ ~passedOver(checkedEntities[i])
            /\ \A j \in 1..(i - 1) :
                  \/ ~matches(checkedPlayer, checkedEntities[j])
                  \/ passedOver(checkedEntities[j])
    ELSE 0

overlapsShrunk(p, ent) ==
    /\ p.pos.x + PX(6) < ent.x + ent.w
    /\ p.pos.x + PLAYER_SIZE - PX(6) > ent.x
    /\ p.pos.y + PX(6) < ent.y + ent.h
    /\ p.pos.y + PLAYER_SIZE - PX(6) > ent.y

outcomeOf(ent) ==
    IF ent.type = "SPIKE" THEN "Spiked"
    ELSE IF ent.properties.fake THEN "It was a trap!"
    ELSE "WIN"

\* C15: step 5 walks the entity list in order and stops at the first
\* entity that ends the frame: a frame that gets to step 5 reports the
\* outcome of the first entity in list order whose test matches (a death or
\* a win, never both), also when a spike and a winning goal both match,
\* and reports nothing and plays on if none matches
C15_FirstInListDecides ==
    [][ reachesStep5 =>
          IF firstDeciding = 0
          THEN report' = "" /\ gameStatus' = "PLAYING"
          ELSE /\ report' = outcomeOf(checkedEntities[firstDeciding])
               /\ gameStatus' = IF report' = "WIN" THEN "WIN" ELSE "DEAD" ]_vars

\* the player died on a spike while inside a winning goal that comes
\* later in the list
C15_SpikedInsideTheGoal ==
    /\ gameStatus = "DEAD"
    /\ report = "Spiked"
    /\ \E i, j \in DOMAIN entities :
          /\ i < j
          /\ entities[i].type = "SPIKE"
          /\ overlapsShrunk(player, entities[i])
          /\ entities[j].type = "GOAL"
          /\ ~entities[j].properties.fake
          /\ overlapsPlayer(entities[j])

\* the feet of q rest on the top of the collidable wall ent
restsOn(q, ent) ==
    /\ ent.type = "WALL"
    /\ ent.collidable
    /\ q.pos.y + PLAYER_SIZE = ent.y
    /\ q.pos.x < ent.x + ent.w
    /\ q.pos.x + PLAYER_SIZE > ent.x

\* C16: the mechanics of a frame run after the velocity update and before
\* both collision passes: the passes of frame N work on the entity list as
\* the mechanics of frame N leave it, so a platform that the mechanics
\* make non-collidable in frame N neither blocks nor grounds the player in
\* frame N
C16_PassesSeeThisFramesMechanics ==
    [][ playedThrough =>
          /\ entities' = checkedEntities
          /\ player' =
                LET p1 == applyPhysics(player, keys)
                    p2 == horizontalPass(p1, entities', currentLevel)
                IN  verticalPass(moveVertical(p2), entities')
          /\ (\E i \in DOMAIN entities :
                 entities[i].collidable /\ ~entities'[i].collidable)
              => (player'.isGrounded =>
                    \E j \in DOMAIN entities' :
                       restsOn(player', entities'[j])) ]_vars

\* a crumbling platform has gone in the frame just played, and the player
\* who stood on it is already falling
C16_FallingAsThePlatformGoes ==
    /\ gameStatus = "PLAYING"
    /\ ~player.isGrounded
    /\ player.vel.y = GRAVITY
    /\ \E i \in DOMAIN entities :
          /\ crumbling(entities[i])
          /\ gone(entities[i])
          /\ entities[i].properties.timer = <<21>>
          /\ player.pos.y + PLAYER_SIZE = entities[i].y + GRAVITY
          /\ player.pos.x < entities[i].x + entities[i].w
          /\ player.pos.x + PLAYER_SIZE > entities[i].x

\* C17: the mechanics change the working copy alone: no step changes the
\* levels' own data, every change of status (a death, a win, a restart)
\* leaves the working entity list equal to the level's authored list, and
\* an attempt whose first frame is still to be played has the authored
\* list: no trigger flag, timer, position or visibility survives
C17_RestartFromBaseline ==
    /\ [](gameStatus = "PLAYING" /\ frameCount = 0
            => entities = currentLevel.entities)
    /\ [][ /\ allLevels' = allLevels
           /\ currentLevel' = currentLevel
           /\ gameStatus' # gameStatus => entities' = currentLevel.entities
         ]_vars

\* level 4: the player died below 'trap-plat', which had crumbled under
\* them, and the working list shows it whole again
C17_DiedBelowTheRestoredPlatform ==
    /\ currentLevel.id = 4
    /\ gameStatus = "DEAD"
    /\ entities = currentLevel.entities
    /\ \E i \in DOMAIN entities :
          /\ entities[i].id = "trap-plat"
          /\ entities[i].collidable
          /\ ~entities[i].properties.triggered
          /\ player.pos.y > entities[i].y + entities[i].h
          /\ player.pos.x > entities[i].x
          /\ player.pos.x + PLAYER_SIZE < entities[i].x + entities[i].w

jumped == playedThrough /\ player'.vel.y = JUMP_FORCE + GRAVITY

\* C19: a frame applies the jump impulse only if the player was grounded
\* when the frame began (and a jump key is held); a player in the air only
\* gains gravity or is stopped by a wall; and the jump clears isGrounded
\* before the frame's mechanics run, so a crumbling platform the player
\* jumps off in that frame is not triggered by it
C19_JumpOnlyFromTheGround ==
    [][ /\ jumped => (player.isGrounded /\ holdsJump(keys))
        /\ (playedThrough /\ ~player.isGrounded) =>
              player'.vel.y \in {0, Min(player.vel.y + GRAVITY, MAX_FALL_SPEED)}
        /\ (playedThrough /\ player.isGrounded /\ holdsJump(keys)) =>
              \A i \in DOMAIN entities :
                 (crumbling(entities[i]) /\ ~entities[i].properties.triggered)
                     => ~entities'[i].properties.triggered ]_vars

\* the player has just jumped off the trap wall, which it has not triggered
C19_JumpedOffTheTrapWall ==
    /\ gameStatus = "PLAYING"
    /\ player.vel.y = JUMP_FORCE + GRAVITY
    /\ ~player.isGrounded
    /\ \E i \in DOMAIN entities :
          /\ entities[i].properties.trap
          /\ ~entities[i].properties.triggered
          /\ player.pos.y + PLAYER_SIZE = entities[i].y + JUMP_FORCE + GRAVITY
          /\ player.pos.x < entities[i].x + entities[i].w
          /\ player.pos.x + PLAYER_SIZE > entities[i].x

\* C20: the jump impulse is applied on a jump input edge only, so one
\* press gives one jump at most and a key held across a landing gives no
\* new jump.  In a run without any key event a jump key that is down has
\* been down since before the first frame; level 1's first landing is in
\* its 13th frame, so the one jump that press may give is applied in the
\* 14th frame, and no later frame applies the impulse
C20_OneJumpPerPress ==
    [][ (currentLevel.id = 1 /\ keyEvents = 0 /\ jumped)
            => frameCount <= 13 ]_vars

\* C21: generateTaunt never rejects or throws: whatever the provider does
\* with a call (no client, an exception, no response, a response without
\* text or with the empty text, a text) the await of handleDie resumes
\* with a text, which becomes the taunt and ends the loading; on each of
\* the failure outcomes that text is one of FALLBACK_TAUNTS
C21_TauntOrFallback ==
    /\ [](taunt \in Seq(STRING) /\
          \A i \in DOMAIN requests :
              generateTaunt(TRUE, requests[i].outcome, requests[i].draw)
                  \in Seq(STRING))
    /\ [][ /\ \A i \in DOMAIN requests :
                settles(i) =>
                  /\ ~loadingTaunt'
                  /\ ~hasText(requests[i].outcome) =>
                        \E k \in DOMAIN FALLBACK_TAUNTS : taunt' = FALLBACK_TAUNTS[k]
           /\ (deathCount' = deathCount + 1 /\ ~ai) =>
                  /\ \E k \in DOMAIN FALLBACK_TAUNTS : taunt' = FALLBACK_TAUNTS[k]
                  /\ ~loadingTaunt'
                  /\ requests' = requests ]_vars

\* a call that the provider answered with an exception, or without a text,
\* has been settled and a fallback taunt is on the death overlay
C21_FallbackAfterAFailedCall ==
    /\ ai
    /\ gameStatus = "DEAD"
    /\ deathCount = 1
    /\ requests = <<>>
    /\ ~loadingTaunt
    /\ \E k \in DOMAIN FALLBACK_TAUNTS : taunt = FALLBACK_TAUNTS[k]

\* C22: when the call of an earlier death settles after the call of the
\* most recent death has, its result is discarded: the taunt stays the one
\* produced for the most recent death
C22_StaleTauntDiscarded ==
    [][ \A i \in DOMAIN requests :
           ( /\ settles(i)
             /\ requests[i].deathCount < deathCount
             /\ \A k \in DOMAIN requests : requests[k].deathCount # deathCount )
               => taunt' = taunt ]_vars

\* C23: a save compiles every painted cell (c, r) but the player start
\* into exactly one entity, a 1x1 tile at (c*TILE_SIZE, r*TILE_SIZE) whose
\* type, flags and properties follow the tool: WALL, SPIKE and GOAL a
\* visible collidable entity of that type, FAKE_WALL a WALL that is not
\* collidable, GHOST_WALL a WALL with properties.ghost, TRAP_WALL a WALL
\* with properties.trap, FALLING_SPIKE a SPIKE with fallingStrategy
\* 'proximity', FAKE_GOAL a GOAL with properties.fake; the PLAYER_START
\* cell gives no entity and is the level's startPos
C23_SaveCompilesEveryCell ==
    [][ customLevels' # customLevels =>
          LET lvl == customLevels'[Len(customLevels')]
              ents == lvl.entities
              at(e) == {i \in DOMAIN ents :
                          ents[i].x = e.c * TILE_SIZE /\ ents[i].y = e.r * TILE_SIZE}
              type(t) == CASE t \in {"WALL", "FAKE_WALL", "GHOST_WALL", "TRAP_WALL"}
                                -> "WALL"
                           [] t \in {"SPIKE", "FALLING_SPIKE"} -> "SPIKE"
                           [] t \in {"GOAL", "FAKE_GOAL"} -> "GOAL"
              props(t) == [NoProps EXCEPT
                             !.ghost = (t = "GHOST_WALL"),
                             !.trap = (t = "TRAP_WALL"),
                             !.fake = (t = "FAKE_GOAL"),
                             !.fallingStrategy =
                                 IF t = "FALLING_SPIKE" THEN "proximity" ELSE ""]
          IN  /\ \A k \in DOMAIN grid :
                    IF grid[k].type = "PLAYER_START"
                    THEN /\ at(grid[k]) = {}
                         /\ lvl.startPos = [x |-> grid[k].c * TILE_SIZE,
                                            y |-> grid[k].r * TILE_SIZE]
                    ELSE /\ Cardinality(at(grid[k])) = 1
                         /\ \A i \in at(grid[k]) :
                               /\ ents[i].w = TILE_SIZE /\ ents[i].h = TILE_SIZE
                               /\ ents[i].type = type(grid[k].type)
                               /\ ents[i].visible
                               /\ ents[i].collidable = (grid[k].type # "FAKE_WALL")
                               /\ ents[i].properties = props(grid[k].type)
              /\ \A i \in DOMAIN ents : \E k \in DOMAIN grid : i \in at(grid[k]) ]_vars

\* the first editor-built level has been saved again with a falling spike
\* and a ghost wall painted beside its fake walls and its trap wall
C23_SavedTheSpecialTiles ==
    /\ gameStatus = "MENU"
    /\ Len(customLevels) = 1
    /\ \E i, j, k, l \in DOMAIN customLevels[1].entities :
          LET ents == customLevels[1].entities
          IN  /\ ents[i].type = "WALL" /\ ~ents[i].collidable
              /\ ents[j].properties.trap
              /\ ents[k].properties.fallingStrategy = "proximity"
              /\ ents[l].properties.ghost

\* C24: a save hands a level to onSave if and only if the grid holds a
\* Player Start cell and at least one Goal or Fake Goal cell; otherwise it
\* sets an error message, hands over nothing and leaves the grid as it is
C24_SavesIffStartAndGoalOrFakeGoal ==
    [][ LET painted(types) == \E k \in DOMAIN grid : grid[k].type \in types
            handedOver == customLevels' # customLevels
        IN  (gameStatus = "EDITOR" /\ (handedOver \/ error' # error)) =>
               IF painted({"PLAYER_START"}) /\ painted({"GOAL", "FAKE_GOAL"})
               THEN handedOver
               ELSE ~handedOver /\ error' # "null" /\ grid' = grid ]_vars

\* C25: checkCollision(a, b) is true exactly when the two rectangles
\* overlap on both axes with an overlap of nonzero width and nonzero
\* height (touching along an edge or at a corner is no collision, a
\* rectangle of zero width or zero height collides with nothing), and it
\* is symmetric; stated of the rectangles the frames apply it to, the
\* player's and the spike hitbox against every entity
C25_CollideIffOverlap ==
    \A i \in DOMAIN entities :
       \A a \in {playerRectOf(player), spikePlayerHitbox(player)} :
          LET b == entities[i]
              width == Min(a.x + a.w, b.x + b.w) - Max(a.x, b.x)
              height == Min(a.y + a.h, b.y + b.h) - Max(a.y, b.y)
          IN  /\ checkCollision(a, b) <=> (width > 0 /\ height > 0)
              /\ (b.w = 0 \/ b.h = 0) => ~checkCollision(a, b)
              /\ checkCollision(a, b) <=> checkCollision(b, a)

C27_ProximitySpikeFalls ==
    [][ playedThrough =>
          \A i \in DOMAIN entities :
             entities[i].properties.fallingStrategy = "proximity" =>
                LET spike == entities[i]
                    after == entities'[i]
                    near == Abs((2 * spike.x + spike.w)
                                  - (2 * player.pos.x + PLAYER_SIZE))
                               < 2 * PLAYER_SIZE
                    below == player.pos.y > spike.y
                IN  /\ after.x = spike.x
                    /\ after.properties.fallingStrategy = "proximity"
                    /\ ~spike.properties.triggered =>
                          /\ after.y = spike.y
                          /\ after.properties.triggered = (near /\ below)
                    /\ spike.properties.triggered =>
                          /\ after.properties.triggered
                          /\ after.y = spike.y + PX(9) ]_vars

\* the spike of the third editor-built level has fallen through the floor
\* and is still falling
C27_FellThroughTheFloor ==
    /\ currentLevel = ambushLevel /\ gameStatus = "PLAYING"
    /\ \E i \in DOMAIN entities :
          /\ entities[i].properties.fallingStrategy = "proximity"
          /\ entities[i].properties.triggered
          /\ entities[i].x = 4 * TILE_SIZE
          /\ entities[i].y > 11 * TILE_SIZE

\* C28: in level 3, in every frame of an attempt, each 'fall-spike' keeps
\* its x and is never shaking and falling at once at the end of the frame.
\* An idle spike stays idle and in place unless |player.pos.x - spike.x| is
\* below 2.5 tiles, and then it shakes with timer 1; a shaking spike keeps
\* its y while its timer counts 1, 2, .. 30, displayX alone following the
\* jitter, and in the frame the timer passes 30 it stops shaking, falls and
\* is 9 lower; a falling spike stays falling, never shakes and is 9 lower
\* in every frame
C28_IdleShakingFalling ==
    [][ (currentLevel.id = 3 /\ playedThrough) =>
          \A i \in DOMAIN entities :
             includesFallSpike(entities[i].id) =>
                LET spike == entities[i]
                    after == entities'[i]
                    was == spike.properties
                    is == after.properties
                    idle(pr) == ~pr.shaking /\ ~pr.falling
                    near == 2 * Abs(player.pos.x - spike.x) < 5 * TILE_SIZE
                IN  /\ after.x = spike.x
                    /\ ~(is.shaking /\ is.falling)
                    /\ (idle(was) /\ ~near) => (idle(is) /\ after.y = spike.y)
                    /\ (idle(was) /\ near) =>
                          /\ is.shaking /\ is.shakeTimer = <<1>>
                          /\ after.y = spike.y
                    /\ (was.shaking /\ was.shakeTimer[1] < 30) =>
                          /\ is.shaking
                          /\ is.shakeTimer = <<was.shakeTimer[1] + 1>>
                          /\ after.y = spike.y
                    /\ (was.shaking /\ was.shakeTimer[1] >= 30) =>
                          (is.falling /\ after.y = spike.y + PX(9))
                    /\ was.falling =>
                          (is.falling /\ after.y = spike.y + PX(9))
                    /\ IF is.shaking
                       THEN /\ is.displayX[1] - after.x \in Jitters(currentLevel)
                            /\ is.shakeTimer[1] \in 1..30
                       ELSE is.displayX = <<after.x>> ]_vars

\* 'fall-spike-1' has shaken its thirty frames and has fallen for three
C28_FellAfterTheShake ==
    /\ currentLevel.id = 3 /\ gameStatus = "PLAYING"
    /\ \E i \in DOMAIN entities :
          /\ entities[i].id = "fall-spike-1"
          /\ entities[i].properties.falling
          /\ entities[i].properties.shakeTimer = <<31>>
          /\ entities[i].y = 4 * TILE_SIZE + PX(27)

\* C29: in level 2 the goal's x is never above 18*TILE_SIZE; in a frame of
\* an attempt it is 8 more at the end exactly if player.pos.x >
\* 8*TILE_SIZE and goal.x < 18*TILE_SIZE at the start, and the same as
\* before otherwise; a key event leaves it as it is
C29_GoalSlidesToTheCap ==
    /\ [](currentLevel.id = 2 =>
            \A i \in DOMAIN entities :
               entities[i].id = "goal" => entities[i].x <= 18 * TILE_SIZE)
    /\ [][ (currentLevel.id = 2 /\ (playedThrough \/ keys' # keys)) =>
             \A i \in DOMAIN entities :
                entities[i].id = "goal" =>
                   LET slides == /\ playedThrough
                                 /\ player.pos.x > 8 * TILE_SIZE
                                 /\ entities[i].x < 18 * TILE_SIZE
                   IN  /\ entities'[i].id = "goal"
                       /\ entities'[i].x >= entities[i].x
                       /\ entities'[i].x =
                             IF slides THEN entities[i].x + PX(8)
                             ELSE entities[i].x ]_vars

\* the campaign's goal has slid its twenty steps to the cap, the player
\* still past the line that sets it off
C29_GoalAtTheCap ==
    /\ currentLevelIndex = 1 /\ gameStatus = "PLAYING"
    /\ player.pos.x > 8 * TILE_SIZE
    /\ \E i \in DOMAIN entities :
          entities[i].id = "goal" /\ entities[i].x = 18 * TILE_SIZE

\* level 9: the player is in play on 'floor' with no horizontal direction
\* held
standsStill ==
    /\ gameStatus = "PLAYING"
    /\ player.isGrounded
    /\ player.pos.y + PLAYER_SIZE = 12 * TILE_SIZE
    /\ ~holdsLeft(keys) /\ ~holdsRight(keys)

\* the frames a released player slides on before the shark sees it still:
\* those whose friction leaves |vel.x| above 0.1
RECURSIVE slidingFrames(_)
slidingFrames(v) ==
    IF Abs(FRICTION(v)) > 100 THEN 1 + slidingFrames(FRICTION(v)) ELSE 0

\* the attack frames a shark at y needs to come inside the spike hitbox of
\* a player on the floor
RECURSIVE risingFrames(_)
risingFrames(y) ==
    IF y - PX(5) < 12 * TILE_SIZE - PX(6) THEN 1 ELSE 1 + risingFrames(y - PX(5))

\* the frames a player who stands still from here has left: a frame of
\* sliding lowers the shark by 2, less than one attack frame undoes
framesLeft ==
    2 * slidingFrames(player.vel.x)
      + risingFrames(entities[findIndex(entities, "shark-spike")].y)

\* the most frames a player standing still on level 9's floor has left: a
\* slide from full speed, and a shark at the bottom of its retreat
MaxStandingFrames ==
    2 * slidingFrames(MOVE_SPEED) + risingFrames(12 * TILE_SIZE + PX(10))

\* C30: in level 9 the shark's y is always within 12*TILE_SIZE - 30 ..
\* 12*TILE_SIZE + 10, and at the end of every frame of an attempt its
\* centre is on the centre of the player's x as the frame found it.  A
\* player on the floor with no horizontal direction held has at most
\* MaxStandingFrames frames left: every frame that leaves it so in play
\* takes one off at least, and a frame that ends the attempt by a death
\* reports "Spiked"
C30_StandingStillIsSpiked ==
    /\ [](currentLevel.id = 9 =>
            \A i \in DOMAIN entities :
               entities[i].id = "shark-spike" =>
                  /\ entities[i].y >= 12 * TILE_SIZE - PX(30)
                  /\ entities[i].y <= 12 * TILE_SIZE + PX(10))
    /\ [](currentLevel.id = 9 /\ standsStill =>
            framesLeft \in 1..MaxStandingFrames)
    /\ [][ (currentLevel.id = 9 /\ playedThrough) =>
             \A i \in DOMAIN entities :
                entities[i].id = "shark-spike" =>
                   2 * entities'[i].x + entities'[i].w
                      = 2 * player.pos.x + PLAYER_SIZE ]_vars
    /\ [][ (currentLevel.id = 9 /\ standsStill /\ frameTaken) =>
             /\ gameStatus' = "DEAD" => report' = "Spiked"
             /\ standsStill' => framesLeft' < framesLeft ]_vars

\* a player who let go of the direction key was spiked where it came to
\* rest on the floor
C30_SpikedAtRest ==
    /\ currentLevel.id = 9 /\ gameStatus = "DEAD" /\ report = "Spiked"
    /\ player.pos.y + PLAYER_SIZE = 12 * TILE_SIZE
    /\ player.isGrounded /\ player.vel.x = 0
    /\ player.pos.x > 2 * TILE_SIZE
    /\ ~holdsLeft(keys) /\ ~holdsRight(keys)

\* C31: an entity that is both a trap wall and a proximity falling spike
\* keeps the two mechanics apart: in a frame of an attempt that finds its
\* falling mechanic untriggered and the player not under it (centre within
\* PLAYER_SIZE, player.pos.y > its y), it does not fall, whatever the trap
\* mechanic does in that frame
C31_MechanicsKeepApart ==
    [][ playedThrough =>
          \A i \in DOMAIN entities :
             (/\ entities[i].properties.trap
              /\ entities[i].properties.fallingStrategy = "proximity"
              /\ entities[i].y = currentLevel.entities[i].y
              /\ ~(/\ Abs((2 * entities[i].x + entities[i].w)
                            - (2 * player.pos.x + PLAYER_SIZE)) < 2 * PLAYER_SIZE
                   /\ player.pos.y > entities[i].y))
                => entities'[i].y = entities[i].y ]_vars

\* the ids that the script of level L looks for
scriptedFor(L, id) ==
    CASE L = 1 -> id = "troll-block"
      [] L = 2 -> id = "goal"
      [] L = 3 -> includesFallSpike(id)
      [] L = 4 -> id = "trap-plat"
      [] L = 5 -> includesInvSpike(id)
      [] L = 7 -> id = "falling-pillar"
      [] L = 8 -> id = "crushing-ceiling"
      [] L = 9 -> id = "shark-spike"
      [] L = 10 -> id \in {"fake-goal", "real-goal", "s1", "s2", "s3", "s4"}
      [] OTHER -> FALSE

\* C32: in a frame of an attempt of level L, every entity that has neither
\* properties.trap nor fallingStrategy 'proximity' nor an id that the
\* script of L looks for keeps its x, y, visible and collidable, even if
\* its id is one that the script of another level looks for
C32_UnownedEntitiesKept ==
    [][ playedThrough =>
          \A i \in DOMAIN entities :
             (/\ ~entities[i].properties.trap
              /\ entities[i].properties.fallingStrategy # "proximity"
              /\ ~scriptedFor(currentLevel.id, entities[i].id))
                => /\ entities'[i].id = entities[i].id
                   /\ entities'[i].x = entities[i].x
                   /\ entities'[i].y = entities[i].y
                   /\ entities'[i].visible = entities[i].visible
                   /\ entities'[i].collidable = entities[i].collidable ]_vars

\* level 3's 'goal', an id of level 2's script, is where the level put it
\* with the player past level 2's line and a 'fall-spike' on its way down
C32_GoalOfLevelThreeStays ==
    /\ currentLevel.id = 3 /\ gameStatus = "PLAYING"
    /\ player.pos.x > 8 * TILE_SIZE
    /\ entities[findIndex(entities, "goal")].x = 17 * TILE_SIZE
    /\ \E i \in DOMAIN entities :
          includesFallSpike(entities[i].id) /\ entities[i].properties.falling

\* a step that is one call of update: no key event, no TRY AGAIN
updateCalled ==
    keys' = keys /\ ~(gameStatus = "DEAD" /\ gameStatus' = "PLAYING")

\* C33: every particle has a life in 0.001 .. 1 and a decay of 0.02 at
\* least, so it is gone after 50 calls at most.  Every call of update, in
\* every status, moves each particle by its velocity, adds GRAVITY / 2 to
\* its vy, lowers its life by its decay and drops it if that leaves 0 or
\* less; the list after the call is these in their order, then the bursts
\* of the frame if it is a playing frame, or empty after a win.  A call in
\* another status than PLAYING leaves the player and the entities alone
C33_ParticlesAgeInEveryStatus ==
    /\ [](\A i \in DOMAIN particles :
            /\ particles[i].life \in 1..1000
            /\ particles[i].decay >= 20)
    /\ [][ updateCalled =>
             LET moved == [i \in DOMAIN particles |->
                             [x |-> particles[i].x + particles[i].vx,
                              y |-> particles[i].y + particles[i].vy,
                              vx |-> particles[i].vx,
                              vy |-> particles[i].vy + GRAVITY \div 2,
                              life |-> particles[i].life - particles[i].decay,
                              decay |-> particles[i].decay]]
                 kept == {i \in DOMAIN moved : moved[i].life > 0}
                 n == Cardinality(kept)
                 aged == [k \in 1..n |->
                            moved[CHOOSE i \in kept :
                                     Cardinality({j \in kept : j <= i}) = k]]
             IN  /\ gameStatus # "PLAYING" =>
                       /\ particles' = aged
                       /\ player' = player /\ entities' = entities
                       /\ gameStatus' = gameStatus
                 /\ gameStatus = "PLAYING" =>
                       \/ gameStatus' = "WIN" /\ particles' = <<>>
                       \/ /\ gameStatus' # "WIN"
                          /\ Len(particles') - n \in {0, BURST_SIZE, 2 * BURST_SIZE}
                          /\ \A k \in 1..n : particles'[k] = aged[k]
                          /\ \A k \in (n + 1)..Len(particles') :
                                particles'[k].life = 1000 ]_vars

\* the burst of a death has aged away while the player lies dead
C33_BurstAgedAway ==
    /\ currentLevel.id = 10 /\ gameStatus = "DEAD" /\ player.dead
    /\ particles = <<>>

\* the causes handleDeath is called with
DeathCauses == {"Fell into the void", "Spiked", "It was a trap!"}

\* C34: a call of update that finds the player dead reports no death and
\* spawns no burst, whatever the frame meets: the particles after it are
\* the aged ones (or none, after a win) and the death count stands.  The
\* call that reports a death finds the player alive, marks it dead and adds
\* one burst; the dead flag is cleared only with a status other than DEAD
C34_DeathHandledOnce ==
    [][ /\ (player.dead /\ updateCalled) =>
              /\ report' \notin DeathCauses
              /\ particles' \in {ageParticles(particles), <<>>}
              /\ deathCount' = deathCount
        /\ (updateCalled /\ report' \in DeathCauses) =>
              /\ ~player.dead /\ player'.dead
              /\ gameStatus' = "DEAD"
              /\ Len(particles') = Len(ageParticles(particles)) + BURST_SIZE
        /\ (player.dead /\ ~player'.dead) => gameStatus' # "DEAD" ]_vars

\* the frame loop has called the update closed over PLAYING once more
\* after the death, and the dead player lies where that frame met a death
\* condition again
C34_DeadPlayerMetDeathAgain ==
    /\ loop = "late" /\ gameStatus = "DEAD" /\ player.dead
    /\ \/ hazardCheck(player, entities) \in DeathCauses
       \/ fellIntoVoid(player, currentLevel)

\* C35: a call of update that finds the player dead leaves the player as
\* it is and reports no win
C35_DeadPlayerRests ==
    [][ (player.dead /\ updateCalled) =>
            (player' = player /\ report' # "WIN") ]_vars

C37_NeverInsideAWall ==
    gameStatus = "PLAYING" =>
        \A i \in DOMAIN entities :
            (entities[i].type = "WALL" /\ entities[i].collidable)
                => ~overlapsPlayer(entities[i])

\* the ids of the levels of a list
idsOf(levels) == {levels[i].id : i \in DOMAIN levels}

\* C38: the ids of all levels, built-in and custom, are pairwise distinct
\* and the custom ones are outside 1..10; a save of a new level adds one
\* level to the custom list and leaves the others as they are; a save of
\* an edited level leaves the list's length and changes no level but those
\* of the edited level's id
C38_SavesKeepIdsApart ==
    /\ [](/\ Cardinality(idsOf(allLevels)) = Len(allLevels)
          /\ idsOf(customLevels) \cap 1..10 = {})
    /\ [][ (gameStatus = "EDITOR" /\ gameStatus' = "MENU") =>
             IF editingLevel = <<>>
             THEN /\ Len(customLevels') = Len(customLevels) + 1
                  /\ \A i \in DOMAIN customLevels :
                        customLevels'[i] = customLevels[i]
             ELSE /\ Len(customLevels') = Len(customLevels)
                  /\ \A i \in DOMAIN customLevels :
                        customLevels[i].id # editingLevel[1].id
                            => customLevels'[i] = customLevels[i]
                  /\ Cardinality({i \in DOMAIN customLevels :
                        customLevels[i].id = editingLevel[1].id}) = 1 ]_vars

\* the tool a grid holds in cell (c, r), "none" for a cell not painted
toolAt(g, c, r) ==
    IF \E i \in DOMAIN g : g[i].c = c /\ g[i].r = r
    THEN g[CHOOSE i \in DOMAIN g : g[i].c = c /\ g[i].r = r].type
    ELSE "none"

\* the cells of a grid that hold the tool
cellsOf(g, tool) == {i \in DOMAIN g : g[i].type = tool}

\* C39: the grid holds at most one PLAYER_START cell and one entry for
\* every cell (a Map of cells: at most one tool in a cell).  A paint with
\* the eraser takes out the painted cell and leaves every other cell as it
\* is; a paint with PLAYER_START leaves the painted cell as the only start
\* and every cell that held another tool, but the painted one, as it is; a
\* paint with another tool gives the painted cell that tool and leaves
\* every other cell as it is
C39_OneStartOneToolPerCell ==
    /\ [](/\ Cardinality(cellsOf(grid, "PLAYER_START")) <= 1
          /\ \A i, j \in DOMAIN grid :
                (grid[i].c = grid[j].c /\ grid[i].r = grid[j].r) => i = j)
    /\ [][ (gameStatus = "EDITOR" /\ gameStatus' = "EDITOR" /\ grid' # grid
              /\ grid' # <<>>) =>
             LET cells == {<<g.c, g.r>> : g \in {grid[i] : i \in DOMAIN grid}
                                            \cup {grid'[i] : i \in DOMAIN grid'}}
             IN  \E here \in PaintCells :
                    /\ toolAt(grid', here[1], here[2]) =
                          IF activeTool = "ERASER" THEN "none" ELSE activeTool
                    /\ \A cell \in cells \ {here} :
                          toolAt(grid', cell[1], cell[2]) =
                             IF activeTool = "PLAYER_START"
                                  /\ toolAt(grid, cell[1], cell[2]) = "PLAYER_START"
                             THEN "none"
                             ELSE toolAt(grid, cell[1], cell[2]) ]_vars

\* the start has been painted on a second cell of the loaded level: the
\* start of the level is gone, the painted cell is the only start
C39_StartMoved ==
    /\ gameStatus = "EDITOR" /\ editingLevel # <<>>
    /\ cellsOf(grid, "PLAYER_START") # {}
    /\ \A i \in cellsOf(grid, "PLAYER_START") : <<grid[i].c, grid[i].r>> \in PaintCells
    /\ Len(grid) = Len(gridOf(editingLevel[1]))

\* an entity without its id string
anonymous(ent) == [ent EXCEPT !.id = ""]

\* C40: for the level a save of the editor hands over, the grid the editor
\* loads from it holds the same tool as the saved grid in every cell, the
\* start included; a save of the loaded grid hands over a level of the same
\* id and startPos, with as many entities, the same up to their id strings
\* and order
C40_SaveLoadSave ==
    [][ (gameStatus = "EDITOR" /\ gameStatus' = "MENU") =>
          \E saved \in {customLevels'[Len(customLevels')]} :
          \E loaded \in {gridOf(saved)} :
          \E again \in {handleSave(loaded, saved.id)} :
              /\ \A e \in {grid[i] : i \in DOMAIN grid}
                            \cup {loaded[i] : i \in DOMAIN loaded} :
                    toolAt(loaded, e.c, e.r) = toolAt(grid, e.c, e.r)
              /\ Len(loaded) = Len(grid)
              /\ again.saved
              /\ again.level.id = saved.id
              /\ again.level.startPos = saved.startPos
              /\ Len(again.level.entities) = Len(saved.entities)
              /\ {anonymous(again.level.entities[i]) : i \in DOMAIN saved.entities}
                    = {anonymous(saved.entities[i]) : i \in DOMAIN saved.entities} ]_vars

\* the first editor-built level has been saved with its start moved to a
\* painted cell and a fake goal painted on the other: the grid loaded from
\* it has the start and the fake goal there
C40_SavedWithStartMoved ==
    /\ gameStatus = "MENU"
    /\ Len(customLevels) = 1
    /\ LET loaded == gridOf(customLevels[1])
       IN  /\ Len(loaded) = Len(gridOf(workshopLevel)) + 1
           /\ \E a, b \in PaintCells :
                 /\ toolAt(loaded, a[1], a[2]) = "PLAYER_START"
                 /\ toolAt(loaded, b[1], b[2]) = "FAKE_GOAL"

=============================================================================
